---- MODULE Spec2Model ----
(***************************************************************************)
(* Model of the sync journal (SyncJournalDb, src/src/libsync/              *)
(* syncjournaldb.cpp) and of the propagator job tree (OwncloudPropagator,  *)
(* PropagatorCompositeJob, PropagateDirectory, src/unnamed/part_000).      *)
(*                                                                         *)
(* Strings that the code inspects character by character (paths) are       *)
(* sequences of one-character strings; opaque strings (etag, fileid,       *)
(* permission token) are TLA+ strings.  64-bit integers are records        *)
(* [hi, lo] of two 32-bit words, so that a 32-bit read of a 64-bit column  *)
(* is a different operator from a 64-bit read.                             *)
(***************************************************************************)
EXTENDS Integers, Sequences, FiniteSets, TLC

VARIABLES
    dbOpen,        \* _db.isOpen()
    transaction,   \* _transaction
    metadata,      \* rows of table metadata
    filter,        \* _avoidReadFromDbOnNextSyncFilter
    downloadinfo,  \* rows of table downloadinfo
    blacklist,     \* rows of table blacklist
    last,          \* history: the last journal call, its arguments and result
    started,       \* OwncloudPropagator::start has run
    syncItems,     \* the SyncFileItemVector
    tree,          \* the jobs: node 0 is _rootJob, node k the job of item k
    activeJobList, \* _activeJobList
    scheduled,     \* posted calls of scheduleNextJobImpl
    finalizeQueue, \* posted calls of PropagatorCompositeJob::finalize, per directory
    abortRequested, \* _abortRequested
    limited,       \* _downloadLimit or _uploadLimit is not 0
    maxParallel,   \* OWNCLOUD_MAX_PARALLEL as hardMaximumActiveJob read it
    remoteFolder,  \* _remoteFolder
    anotherSyncNeeded, \* _anotherSyncNeeded
    rootFinished,  \* the status _rootJob emitted finished with, "none" before
    metaWritten,   \* history: the directories whose metadata row was written
    firstStatus,   \* history: the status each first job finished with
    completed,     \* history: the last itemCompleted signal PropagateItemJob::done emitted
    fatalEmitted,  \* history: a job has emitted finished(FatalError)
    mutex,         \* _mutex: the thread that holds it, 0 when free
    pc,            \* per thread: the journal method it is in and its position there
    checkServerJobs, \* the CheckServerJob objects, by the order of their construction
    pollinfo,      \* rows of table poll, and the position SqlQuery::bindValue counts from
    diskSpace      \* history: the last call of diskSpaceCheck, and the limits read from the environment

journalVars == <<dbOpen, transaction, metadata, filter, downloadinfo, blacklist, last>>

propVars == <<started, syncItems, tree, activeJobList, scheduled, finalizeQueue, abortRequested,
              limited, maxParallel, remoteFolder, anotherSyncNeeded, rootFinished, metaWritten,
              firstStatus, completed, fatalEmitted>>

threadVars == <<mutex, pc>>

netVars == <<checkServerJobs>>

moreVars == <<pollinfo, diskSpace>>

vars == <<journalVars, propVars, threadVars, netVars, moreVars>>

---------------------------------------------------------------------------
(* Bounds *)

\* largest number of rows the model lets the metadata table hold
MaxRows == 2
\* largest number of paths the model lets the invalidation filter hold
MaxFilter == 1
\* largest number of rows the model lets downloadinfo / blacklist hold
MaxInfoRows == 2

---------------------------------------------------------------------------
(* Strings *)

PA   == <<"a">>
PAB  == <<"a", "/", "b">>
PAX  == <<"a", "b">>
PU   == <<"_">>
\* the paths journal calls are made with
Paths == {PA, PAB, PAX, PU}

\* QString::startsWith
startsWith(s, prefix) ==
    /\ Len(prefix) <= Len(s)
    /\ SubSeq(s, 1, Len(prefix)) = prefix

\* SQLite LIKE with PRAGMA case_sensitive_like = ON and no ESCAPE clause:
\* '%' matches any run of characters, '_' any one character, every other
\* character matches itself.
RECURSIVE Like(_, _)
Like(text, pattern) ==
    IF pattern = << >> THEN text = << >>
    ELSE IF Head(pattern) = "%"
         THEN \E k \in 0..Len(text) : Like(SubSeq(text, k + 1, Len(text)), Tail(pattern))
         ELSE /\ text # << >>
              /\ Head(pattern) = "_" \/ Head(pattern) = Head(text)
              /\ Like(Tail(text), Tail(pattern))

\* the SQL expression  x LIKE(p||'/%')
LikeBelow(x, p) == Like(x, p \o <<"/", "%">>)

---------------------------------------------------------------------------
(* Integers and column accessors *)

\* a 64-bit integer as two 32-bit words
I64(h, l) == [hi |-> h, lo |-> l]

\* an int (or a time_t below 2^31) as SQLite stores it: a 64-bit integer
Int64Of(n) == I64(0, n)

\* SqlQuery::int64Value: the whole 64-bit column value
int64Value(v) == v

\* SqlQuery::intValue: the column value as a 32-bit int, that is its low
\* word (the low words used here are below 2^31, so the int is not negative)
intValue(v) == v.lo

\* Utility::qDateTimeToTime_t: QDateTime (milliseconds since epoch) to seconds
qDateTimeToTime_t(t) == t \div 1000

\* Utility::qDateTimeFromTime_t: seconds (a 64-bit value below 2^31) to QDateTime
qDateTimeFromTime_t(s) == s.lo * 1000

\* SQL NULL, as bound for an empty remotePerm
SqlNull == "<NULL>"

\* SqlQuery::baValue: a NULL column reads as an empty byte array
baValue(v) == IF v = SqlNull THEN "" ELSE v

\* the character codes the path hash is computed from
CharCode(c) ==
    CASE c = "a" -> 1
      [] c = "b" -> 2
      [] c = "/" -> 3
      [] c = "_" -> 4
      [] c = "A" -> 5
      [] OTHER   -> 6

\* c_jhash64 over the bytes of the path: a deterministic hash, modelled
\* without collisions on the paths used here
RECURSIVE c_jhash64(_)
c_jhash64(s) == IF s = << >> THEN 0 ELSE CharCode(Head(s)) + 7 * c_jhash64(Tail(s))

\* SyncJournalDb::getPHash
getPHash(file) == IF file = << >> THEN -1 ELSE c_jhash64(file)

---------------------------------------------------------------------------
(* File records *)

InvalidEtag == "_invalid_"
TypeFile == 0
\* CSYNC_FTW_TYPE_DIR
TypeDir  == 2

\* a default-constructed SyncJournalFileRecord
EmptyFileRecord ==
    [path |-> << >>, inode |-> I64(0, 0), mode |-> 0, modtime |-> 0, type |-> 0,
     etag |-> "", fileId |-> "", remotePerm |-> "", fileSize |-> I64(0, 0)]

\* the records setFileRecord is called with: a file whose inode fits 32 bits
\* and a directory whose inode does not
FileRecordOf(p, v) ==
    IF v = 1
    THEN [path |-> p, inode |-> I64(0, 5), mode |-> 420, modtime |-> 1000000, type |-> TypeFile,
          etag |-> "e1", fileId |-> "f1", remotePerm |-> "RW", fileSize |-> I64(0, 7)]
    ELSE [path |-> p, inode |-> I64(1, 5), mode |-> 493, modtime |-> 2000000, type |-> TypeDir,
          etag |-> "e2", fileId |-> "f2", remotePerm |-> "", fileSize |-> I64(1, 0)]

FileRecords == {FileRecordOf(p, v) : p \in Paths, v \in 1..2}

\* FilteredEtag with the prefix test turned around (record below the entry)
FilteredEtag_Below(record, flt) ==
    IF \E it \in flt : startsWith(record.path, it \o <<"/">>)
    THEN InvalidEtag
    ELSE record.etag

\* the etag setFileRecord writes: "_invalid_" when some filter entry starts
\* with record._path + "/"
FilteredEtag(record, flt) ==
    IF \E it \in flt : startsWith(it, record.path \o <<"/">>)
    THEN InvalidEtag
    ELSE record.etag

\* the row bound by setFileRecord (INSERT OR REPLACE INTO metadata ...)
MetadataRow(record, flt) ==
    [phash      |-> getPHash(record.path),
     pathlen    |-> Len(record.path),
     path       |-> record.path,
     inode      |-> record.inode,
     uid        |-> 0,
     gid        |-> 0,
     mode       |-> Int64Of(record.mode),
     modtime    |-> Int64Of(qDateTimeToTime_t(record.modtime)),
     type       |-> Int64Of(record.type),
     md5        |-> FilteredEtag(record, flt),
     fileid     |-> record.fileId,
     remotePerm |-> IF record.remotePerm = "" THEN SqlNull ELSE record.remotePerm,
     filesize   |-> record.fileSize]

\* INSERT OR REPLACE on PRIMARY KEY(phash)
InsertOrReplace(table, row) == {x \in table : x.phash # row.phash} \cup {row}

\* the record getFileRecord builds from a row
RecordOfRow(row) ==
    [path       |-> row.path,
     inode      |-> Int64Of(intValue(row.inode)),
     mode       |-> intValue(row.mode),
     modtime    |-> qDateTimeFromTime_t(int64Value(row.modtime)),
     type       |-> intValue(row.type),
     etag       |-> baValue(row.md5),
     fileId     |-> baValue(row.fileid),
     remotePerm |-> baValue(row.remotePerm),
     fileSize   |-> int64Value(row.filesize)]

\* the rows SELECT ... FROM metadata WHERE phash=?1 yields
RowsByPhash(table, file) == {x \in table : x.phash = getPHash(file)}

\* SyncJournalDb::getFileRecord on an open connection: the first row found,
\* or a default-constructed record
getFileRecord(table, file) ==
    IF RowsByPhash(table, file) = {}
    THEN EmptyFileRecord
    ELSE RecordOfRow(CHOOSE x \in RowsByPhash(table, file) : TRUE)

\* SyncJournalDb::getFileRecordCount on an open connection
getFileRecordCount(table) == Cardinality(table)

\* the paths stored in the metadata table
StoredPaths(table) == {x.path : x \in table}

---------------------------------------------------------------------------
(* History *)

NoCall ==
    [op |-> "none", path |-> << >>, rec |-> EmptyFileRecord, flag |-> FALSE,
     keep |-> {}, ok |-> FALSE, ret |-> 0, pre |-> {}, flt |-> {}, commit |-> FALSE,
     info |-> [tmpfile |-> "", etag |-> "", errorCount |-> 0, valid |-> FALSE]]

Call(op, path, ok) == [NoCall EXCEPT !.op = op, !.path = path, !.ok = ok]

---------------------------------------------------------------------------
(* Journal operations on the metadata table *)

\* SyncJournalDb::checkConnect: TRUE when the connection is open or can be
\* opened (openOk: _db.open succeeds)
checkConnect(openOk) == dbOpen \/ openOk

\* SyncJournalDb::setFileRecord
setFileRecord(record, openOk, execOk) ==
    /\ \/ RowsByPhash(metadata, record.path) # {}
       \/ Cardinality(metadata) < MaxRows
    /\ IF checkConnect(openOk)
       THEN /\ dbOpen' = TRUE
            /\ IF execOk
               THEN metadata' = InsertOrReplace(metadata, MetadataRow(record, filter))
               ELSE metadata' = metadata
            /\ last' = [Call("setFileRecord", record.path, execOk) EXCEPT
                           !.rec = record, !.pre = StoredPaths(metadata), !.flt = filter,
                           !.ret = Cardinality(metadata)]
       ELSE /\ last' = [Call("setFileRecord", record.path, FALSE) EXCEPT !.rec = record]
            /\ UNCHANGED <<dbOpen, metadata>>
    /\ UNCHANGED <<transaction, filter, downloadinfo, blacklist>>
    /\ UNCHANGED <<propVars, threadVars, netVars, moreVars>>

\* DELETE FROM metadata WHERE phash=?1
DeleteByPhash(table, filename) == {x \in table : x.phash # getPHash(filename)}

\* DeleteRecursively with the pattern ?||'/' (the wildcard forgotten)
DeleteRecursively_NoWildcard(table, filename) == {x \in table : ~Like(x.path, filename \o <<"/">>)}

\* DELETE FROM metadata WHERE path LIKE(?||'/%')
DeleteRecursively(table, filename) == {x \in table : ~LikeBelow(x.path, filename)}

\* SyncJournalDb::deleteFileRecord
deleteFileRecord(filename, recursively, openOk) ==
    /\ IF checkConnect(openOk)
       THEN /\ dbOpen' = TRUE
            /\ metadata' = IF recursively
                           THEN DeleteRecursively(DeleteByPhash(metadata, filename), filename)
                           ELSE DeleteByPhash(metadata, filename)
            /\ last' = [Call("deleteFileRecord", filename, TRUE) EXCEPT
                           !.flag = recursively, !.pre = StoredPaths(metadata)]
       ELSE /\ last' = [Call("deleteFileRecord", filename, FALSE) EXCEPT !.flag = recursively]
            /\ UNCHANGED <<dbOpen, metadata>>
    /\ UNCHANGED <<transaction, filter, downloadinfo, blacklist>>
    /\ UNCHANGED <<propVars, threadVars, netVars, moreVars>>

\* CleanedUp with the containment test inverted
CleanedUp_Inverted(table, items) ==
    LET superfluousItems == {x.phash : x \in {y \in table : y.path \in items}}
    IN  {x \in table : x.phash \notin superfluousItems}

\* the rows postSyncCleanup keeps: DELETE FROM metadata WHERE phash in (...)
\* over the phash of every row whose path is not in items
CleanedUp(table, items) ==
    LET superfluousItems == {x.phash : x \in {y \in table : y.path \notin items}}
    IN  {x \in table : x.phash \notin superfluousItems}

\* SyncJournalDb::postSyncCleanup
postSyncCleanup(items, openOk) ==
    /\ IF checkConnect(openOk)
       THEN /\ dbOpen' = TRUE
            /\ metadata' = CleanedUp(metadata, items)
            /\ last' = [Call("postSyncCleanup", << >>, TRUE) EXCEPT
                           !.keep = items, !.pre = StoredPaths(metadata)]
       ELSE /\ last' = [Call("postSyncCleanup", << >>, FALSE) EXCEPT !.keep = items]
            /\ UNCHANGED <<dbOpen, metadata>>
    /\ UNCHANGED <<transaction, filter, downloadinfo, blacklist>>
    /\ UNCHANGED <<propVars, threadVars, netVars, moreVars>>

\* UPDATE metadata SET md5='_invalid_' WHERE ?1 LIKE(path||'/%') AND type == 2
InvalidateParents(table, fileName) ==
    {IF LikeBelow(fileName, x.path) /\ x.type = Int64Of(TypeDir)
     THEN [x EXCEPT !.md5 = InvalidEtag]
     ELSE x : x \in table}

\* SyncJournalDb::avoidReadFromDbOnNextSync
avoidReadFromDbOnNextSync(fileName, openOk) ==
    /\ \/ fileName \in filter
       \/ Cardinality(filter) < MaxFilter
    /\ IF checkConnect(openOk)
       THEN /\ dbOpen' = TRUE
            /\ metadata' = InvalidateParents(metadata, fileName)
            /\ filter' = filter \cup {fileName}
            /\ last' = Call("avoidReadFromDbOnNextSync", fileName, TRUE)
       ELSE /\ last' = Call("avoidReadFromDbOnNextSync", fileName, FALSE)
            /\ UNCHANGED <<dbOpen, metadata, filter>>
    /\ UNCHANGED <<transaction, downloadinfo, blacklist>>
    /\ UNCHANGED <<propVars, threadVars, netVars, moreVars>>

\* UPDATE metadata SET fileid = '', inode = '0' WHERE path == ?1 OR path LIKE(?2||'/%')
ClearRenameKeys(table, path) ==
    {IF x.path = path \/ LikeBelow(x.path, path)
     THEN [x EXCEPT !.fileid = "", !.inode = I64(0, 0)]
     ELSE x : x \in table}

\* SyncJournalDb::avoidRenamesOnNextSync, with its call of
\* avoidReadFromDbOnNextSync (whose own checkConnect finds the connection open)
avoidRenamesOnNextSync(path, openOk) ==
    /\ \/ path \in filter
       \/ Cardinality(filter) < MaxFilter
    /\ IF checkConnect(openOk)
       THEN /\ dbOpen' = TRUE
            /\ metadata' = InvalidateParents(ClearRenameKeys(metadata, path), path)
            /\ filter' = filter \cup {path}
            /\ last' = Call("avoidRenamesOnNextSync", path, TRUE)
       ELSE \* the first checkConnect failed: nothing is done, not even the filter
            /\ last' = Call("avoidRenamesOnNextSync", path, FALSE)
            /\ UNCHANGED <<dbOpen, metadata, filter>>
    /\ UNCHANGED <<transaction, downloadinfo, blacklist>>
    /\ UNCHANGED <<propVars, threadVars, netVars, moreVars>>

\* startTransaction that begins a transaction inside a running one
startTransaction_Nested(t, beginOk) == IF beginOk /\ t < 2 THEN t + 1 ELSE t

\* SyncJournalDb::startTransaction: the counter after the call; beginOk is
\* what _db.transaction() returns
startTransaction(t, beginOk) == IF t = 0 /\ beginOk THEN 1 ELSE t

\* SyncJournalDb::commitTransaction: the counter after the call; commitOk is
\* what _db.commit() returns
commitTransaction(t, commitOk) == IF t = 1 /\ commitOk THEN 0 ELSE t

\* SyncJournalDb::close
close(commitOk) ==
    /\ transaction' = commitTransaction(transaction, dbOpen /\ commitOk)
    /\ dbOpen' = FALSE
    /\ filter' = {}
    /\ last' = Call("close", << >>, TRUE)
    /\ UNCHANGED <<metadata, downloadinfo, blacklist>>
    /\ UNCHANGED <<propVars, threadVars, netVars, moreVars>>

---------------------------------------------------------------------------
(* The journal's metadata store *)

\* the empty table poll; no statement has bound a value yet
NoPollInfo ==
    [rows |-> << >>, first |-> -1, called |-> FALSE, ok |-> FALSE,
     info |-> [file |-> << >>, modtime |-> 0, url |-> << >>]]

\* an environment variable that is not set
NoEnv == [has |-> FALSE, value |-> 0]

\* diskSpaceCheck has not been called and the limits have not been read
NoDiskSpaceCheck ==
    [called |-> FALSE, free |-> 0, committed |-> << >>, result |-> "none",
     read |-> FALSE, envFree |-> NoEnv, envCritical |-> NoEnv]

\* the threads that call into the journal
Threads == {1, 2}

\* a thread that is in no journal method
Idle == [op |-> "none", at |-> "idle", file |-> << >>]

\* the remote folder of a connection that syncs the whole ownCloud
WholeCloud == <<"/">>

\* a null _restoreJob
NoRestoreJob == [class |-> "0", instruction |-> "NONE", direction |-> "None", finished |-> "none"]

\* history: the job has not called checkForProblemsWithShared
NoSharedCheck == [called |-> FALSE, code |-> 0, returned |-> FALSE]

\* no itemCompleted signal has been emitted
NoCompletion ==
    [item |-> -1, called |-> "NoStatus", abort |-> FALSE, outcome |-> "NotBlacklisted",
     status |-> "NoStatus", suppressed |-> FALSE, before |-> {},
     errorString |-> << >>]

Init ==
    /\ dbOpen = FALSE
    /\ transaction = 0
    /\ metadata = {}
    /\ filter = {}
    /\ downloadinfo = {}
    /\ blacklist = {}
    /\ last = NoCall
    /\ started = FALSE
    /\ syncItems = << >>
    /\ tree = << >>
    /\ activeJobList = << >>
    /\ scheduled = 0
    /\ finalizeQueue = << >>
    /\ abortRequested = FALSE
    /\ limited = FALSE
    /\ maxParallel = 0
    /\ remoteFolder = WholeCloud
    /\ anotherSyncNeeded = FALSE
    /\ rootFinished = "none"
    /\ metaWritten = {}
    /\ firstStatus = << >>
    /\ completed = NoCompletion
    /\ fatalEmitted = FALSE
    /\ mutex = 0
    /\ pc = [t \in Threads |-> Idle]
    /\ checkServerJobs = << >>
    /\ pollinfo = NoPollInfo
    /\ diskSpace = NoDiskSpaceCheck

Next ==
    \/ \E r \in FileRecords, openOk \in BOOLEAN, execOk \in BOOLEAN : setFileRecord(r, openOk, execOk)
    \/ \E p \in Paths, rc \in BOOLEAN, openOk \in BOOLEAN : deleteFileRecord(p, rc, openOk)
    \/ \E items \in SUBSET Paths, openOk \in BOOLEAN : postSyncCleanup(items, openOk)
    \/ \E p \in Paths, openOk \in BOOLEAN : avoidReadFromDbOnNextSync(p, openOk)
    \/ \E p \in Paths, openOk \in BOOLEAN : avoidRenamesOnNextSync(p, openOk)
    \/ \E commitOk \in BOOLEAN : close(commitOk)

Spec == Init /\ [][Next]_vars

---------------------------------------------------------------------------
(* The journal's downloadinfo store *)

\* a default-constructed DownloadInfo
EmptyDownloadInfo == [tmpfile |-> "", etag |-> "", errorCount |-> 0, valid |-> FALSE]

\* the infos setDownloadInfo is called with
DownloadInfos ==
    {[tmpfile |-> t, etag |-> "e1", errorCount |-> c, valid |-> TRUE] : t \in {"t1", "t2"}, c \in {0, 2}}
    \cup {EmptyDownloadInfo, [tmpfile |-> "t1", etag |-> "e1", errorCount |-> 1, valid |-> FALSE]}

\* toDownloadInfo
toDownloadInfo(row) ==
    [tmpfile    |-> row.tmpfile,
     etag       |-> baValue(row.etag),
     errorCount |-> intValue(row.errorcount),
     valid      |-> TRUE]

\* SELECT tmpfile, etag, errorcount FROM downloadinfo WHERE path=?1
DownloadRows(table, file) == {x \in table : x.path = file}

\* SyncJournalDb::getDownloadInfo on an open connection
getDownloadInfo(table, file) ==
    IF DownloadRows(table, file) = {}
    THEN EmptyDownloadInfo
    ELSE toDownloadInfo(CHOOSE x \in DownloadRows(table, file) : TRUE)

\* the row bound by setDownloadInfo
DownloadRow(file, i) ==
    [path |-> file, tmpfile |-> i.tmpfile, etag |-> i.etag, errorcount |-> Int64Of(i.errorCount)]

\* setDownloadInfo that stores the row whatever i._valid is
StoreDownloadInfo_Always(table, file, i) ==
    {x \in table : x.path # file} \cup {DownloadRow(file, i)}

\* the table after setDownloadInfo: INSERT OR REPLACE on PRIMARY KEY(path)
\* when i._valid, DELETE FROM downloadinfo WHERE path=?1 otherwise
StoreDownloadInfo(table, file, i) ==
    IF i.valid
    THEN {x \in table : x.path # file} \cup {DownloadRow(file, i)}
    ELSE {x \in table : x.path # file}

\* SyncJournalDb::setDownloadInfo
setDownloadInfo(file, i, openOk) ==
    /\ \/ ~i.valid
       \/ DownloadRows(downloadinfo, file) # {}
       \/ Cardinality(downloadinfo) < MaxInfoRows
    /\ IF checkConnect(openOk)
       THEN /\ dbOpen' = TRUE
            /\ downloadinfo' = StoreDownloadInfo(downloadinfo, file, i)
            /\ last' = [Call("setDownloadInfo", file, TRUE) EXCEPT
                           !.info = i, !.pre = {x.path : x \in downloadinfo}]
       ELSE /\ last' = [Call("setDownloadInfo", file, FALSE) EXCEPT !.info = i]
            /\ UNCHANGED <<dbOpen, downloadinfo>>
    /\ UNCHANGED <<transaction, metadata, filter, blacklist>>
    /\ UNCHANGED <<propVars, threadVars, netVars, moreVars>>

\* SyncJournalDb::getAndDeleteStaleDownloadInfos
getAndDeleteStaleDownloadInfos(keep, openOk) ==
    /\ IF checkConnect(openOk)
       THEN /\ dbOpen' = TRUE
            /\ downloadinfo' = {x \in downloadinfo : x.path \in keep}
            /\ last' = [Call("getAndDeleteStaleDownloadInfos", << >>, TRUE) EXCEPT
                           !.keep = keep, !.pre = {x.path : x \in downloadinfo},
                           !.ret = Cardinality({x \in downloadinfo : x.path \notin keep})]
       ELSE /\ last' = [Call("getAndDeleteStaleDownloadInfos", << >>, FALSE) EXCEPT !.keep = keep]
            /\ UNCHANGED <<dbOpen, downloadinfo>>
    /\ UNCHANGED <<transaction, metadata, filter, blacklist>>
    /\ UNCHANGED <<propVars, threadVars, netVars, moreVars>>

NextDownload ==
    \/ \E p \in Paths, i \in DownloadInfos, openOk \in BOOLEAN : setDownloadInfo(p, i, openOk)
    \/ \E keep \in SUBSET Paths, openOk \in BOOLEAN : getAndDeleteStaleDownloadInfos(keep, openOk)
    \/ \E commitOk \in BOOLEAN : close(commitOk)

SpecDownload == Init /\ [][NextDownload]_vars

---------------------------------------------------------------------------
(* The journal's blacklist store *)

PUpperA == <<"A">>
\* the paths blacklist calls are made with
BlacklistPaths == {PA, PUpperA, PAB}

\* the entries updateBlacklistEntry is called with
BlacklistRecords ==
    {[file |-> p, lastTryEtag |-> "e1", lastTryModtime |-> 1000, retryCount |-> c,
      errorString |-> "err", lastTryTime |-> 5000, ignoreDuration |-> d] :
        p \in BlacklistPaths, c \in {1, 2}, d \in {0, 25}}

\* the row bound by updateBlacklistEntry
BlacklistRow(item) ==
    [path |-> item.file, lastTryEtag |-> item.lastTryEtag,
     lastTryModtime |-> Int64Of(item.lastTryModtime), retrycount |-> Int64Of(item.retryCount),
     errorstring |-> item.errorString, lastTryTime |-> Int64Of(item.lastTryTime),
     ignoreDuration |-> Int64Of(item.ignoreDuration)]

\* a character folded as by COLLATE NOCASE, which folds the ASCII letters
NoCaseChar(c) == IF c = "A" THEN "a" ELSE IF c = "B" THEN "b" ELSE c

\* a text folded as by COLLATE NOCASE
NoCase(s) == [i \in 1..Len(s) |-> NoCaseChar(s[i])]

\* the rows _getBlacklistQuery yields: ... FROM blacklist WHERE path=?1, with
\* COLLATE NOCASE appended when Utility::fsCasePreserving() holds
getBlacklistQuery(table, file, fsCasePreserving) ==
    {x \in table : IF fsCasePreserving THEN NoCase(x.path) = NoCase(file) ELSE x.path = file}

\* SyncJournalDb::blacklistEntry on an open connection finds a row
blacklistEntryFound(table, file, fsCasePreserving) ==
    file # << >> /\ getBlacklistQuery(table, file, fsCasePreserving) # {}

\* SyncJournalDb::blackListEntryCount on an open connection
blackListEntryCount(table) == Cardinality(table)

\* SyncJournalDb::updateBlacklistEntry: INSERT OR REPLACE on PRIMARY KEY(path)
updateBlacklistEntry(item, openOk) ==
    /\ \/ \E x \in blacklist : x.path = item.file
       \/ Cardinality(blacklist) < MaxInfoRows
    /\ IF checkConnect(openOk)
       THEN /\ dbOpen' = TRUE
            /\ blacklist' = {x \in blacklist : x.path # item.file} \cup {BlacklistRow(item)}
            /\ last' = Call("updateBlacklistEntry", item.file, TRUE)
       ELSE /\ last' = Call("updateBlacklistEntry", item.file, FALSE)
            /\ UNCHANGED <<dbOpen, blacklist>>
    /\ UNCHANGED <<transaction, metadata, filter, downloadinfo>>
    /\ UNCHANGED <<propVars, threadVars, netVars, moreVars>>

\* SyncJournalDb::wipeBlacklistEntry: DELETE FROM blacklist WHERE path=?1
wipeBlacklistEntry(file, openOk) ==
    /\ file # << >>
    /\ IF checkConnect(openOk)
       THEN /\ dbOpen' = TRUE
            /\ blacklist' = {x \in blacklist : x.path # file}
            /\ last' = Call("wipeBlacklistEntry", file, TRUE)
       ELSE /\ last' = Call("wipeBlacklistEntry", file, FALSE)
            /\ UNCHANGED <<dbOpen, blacklist>>
    /\ UNCHANGED <<transaction, metadata, filter, downloadinfo>>
    /\ UNCHANGED <<propVars, threadVars, netVars, moreVars>>

\* DELETE FROM blacklist restricted to the entries that still suppress
WipedRows_ActiveOnly(table) == {x \in table : x.ignoreDuration # Int64Of(0)}

\* the rows DELETE FROM blacklist deletes
WipedRows(table) == table

\* wipeBlacklist whose failing statement leaves the connection open
wipeBlacklist_KeepsOpen(openOk, execOk, commitOk) ==
    /\ checkConnect(openOk)
    /\ ~execOk
    /\ transaction' = commitTransaction(transaction, commitOk)
    /\ dbOpen' = TRUE
    /\ last' = [Call("wipeBlacklist", << >>, FALSE) EXCEPT
                   !.ret = -1, !.flag = TRUE, !.commit = (transaction = 1 /\ commitOk)]
    /\ UNCHANGED <<metadata, filter, downloadinfo, blacklist>>
    /\ UNCHANGED <<propVars, threadVars, netVars, moreVars>>

\* SyncJournalDb::wipeBlacklist: returns numRowsAffected, or -1 when the
\* connection or the statement fails (sqlFail commits and closes)
wipeBlacklist(openOk, execOk, commitOk) ==
    /\ IF checkConnect(openOk)
       THEN IF execOk
            THEN /\ dbOpen' = TRUE
                 /\ blacklist' = blacklist \ WipedRows(blacklist)
                 /\ last' = [Call("wipeBlacklist", << >>, TRUE) EXCEPT
                                !.ret = Cardinality(WipedRows(blacklist)),
                                !.pre = {x.path : x \in blacklist}]
                 /\ UNCHANGED transaction
            ELSE /\ transaction' = commitTransaction(transaction, commitOk)
                 /\ dbOpen' = FALSE
                 /\ last' = [Call("wipeBlacklist", << >>, FALSE) EXCEPT
                                !.ret = -1, !.flag = TRUE,
                                !.commit = (transaction = 1 /\ commitOk)]
                 /\ UNCHANGED blacklist
       ELSE /\ last' = [Call("wipeBlacklist", << >>, FALSE) EXCEPT !.ret = -1]
            /\ UNCHANGED <<dbOpen, transaction, blacklist>>
    /\ UNCHANGED <<metadata, filter, downloadinfo>>
    /\ UNCHANGED <<propVars, threadVars, netVars, moreVars>>

\* SyncJournalDb::deleteStaleBlacklistEntries
deleteStaleBlacklistEntries(keep, openOk) ==
    /\ IF checkConnect(openOk)
       THEN /\ dbOpen' = TRUE
            /\ blacklist' = {x \in blacklist : x.path \in keep}
            /\ last' = [Call("deleteStaleBlacklistEntries", << >>, TRUE) EXCEPT !.keep = keep]
       ELSE /\ last' = [Call("deleteStaleBlacklistEntries", << >>, FALSE) EXCEPT !.keep = keep]
            /\ UNCHANGED <<dbOpen, blacklist>>
    /\ UNCHANGED <<transaction, metadata, filter, downloadinfo>>
    /\ UNCHANGED <<propVars, threadVars, netVars, moreVars>>

NextBlacklist ==
    \/ \E item \in BlacklistRecords, openOk \in BOOLEAN : updateBlacklistEntry(item, openOk)
    \/ \E p \in BlacklistPaths, openOk \in BOOLEAN : wipeBlacklistEntry(p, openOk)
    \/ \E openOk \in BOOLEAN, execOk \in BOOLEAN, commitOk \in BOOLEAN :
          wipeBlacklist(openOk, execOk, commitOk)
    \/ \E keep \in SUBSET BlacklistPaths, openOk \in BOOLEAN : deleteStaleBlacklistEntries(keep, openOk)
    \/ \E commitOk \in BOOLEAN : close(commitOk)

SpecBlacklist == Init /\ [][NextBlacklist]_vars

---------------------------------------------------------------------------
(* Sync file items *)

PD   == <<"d">>
PDA  == <<"d", "/", "a">>
PDS  == <<"d", "/", "s">>
PDSX == <<"d", "/", "s", "/", "x">>
PF   == <<"f">>

\* the paths of the item vectors, in the order operator< of SyncFileItem
\* gives them ('/' sorts before every other character)
ItemPaths == <<PD, PDA, PDS, PDSX, PF>>

\* the paths that name directories
DirectoryPaths == {PD, PDS}

\* isLikelyFinishedQuickly of the transfer jobs: the item is smaller than 100 kB
QuickSizeLimit == 102400
SmallSize == 10
LargeSize == 200000

\* SyncFileItem::destination
destination(item) == IF item.renameTarget = << >> THEN item.file ELSE item.renameTarget

\* a SyncFileItem; parallelism is what parallelism() of the job created for
\* the item returns
Item(file, instruction, isDirectory, size) ==
    [file |-> file, originalFile |-> file, renameTarget |-> << >>,
     instruction |-> instruction, direction |-> "Up", isDirectory |-> isDirectory,
     size |-> size, hasBlacklistEntry |-> FALSE, errorMayBeBlacklisted |-> FALSE,
     isRestoration |-> FALSE, errorString |-> << >>,
     parallelism |-> IF instruction = "RENAME" /\ isDirectory
                     THEN "WaitForFinished" ELSE "FullParallelism"]

\* the default-constructed item of the root directory job
EmptyItem == Item(<< >>, "NONE", FALSE, 0)

\* OwncloudPropagator::createJob: the class of the job created, "0" for none
createJob(item) ==
    CASE item.instruction = "REMOVE" ->
            IF item.direction = "Down" THEN "PropagateLocalRemove" ELSE "PropagateRemoteDelete"
      [] item.instruction \in {"NEW", "TYPE_CHANGE"} /\ item.isDirectory ->
            IF item.direction = "Down" THEN "PropagateLocalMkdir" ELSE "PropagateRemoteMkdir"
      [] item.instruction \in {"NEW", "TYPE_CHANGE", "SYNC", "CONFLICT"} ->
            IF item.direction # "Up" THEN "PropagateDownloadFile" ELSE "PropagateUploadFile"
      [] item.instruction = "RENAME" ->
            IF item.direction = "Up" THEN "PropagateRemoteMove" ELSE "PropagateLocalRename"
      [] item.instruction \in {"IGNORE", "ERROR"} -> "PropagateIgnoreJob"
      [] OTHER -> "0"

---------------------------------------------------------------------------
(* OwncloudPropagator::start: the job tree built from the item vector *)

\* node 0 is the root directory job, node k the job of item k
NodesOf(items) == 0..Len(items)

\* SyncFileItem::_affectedItems of a new item: the item itself
InitialAffectedItems == 1

\* the state of the walk before the first item
WalkInit(items) ==
    [items            |-> items,
     directories      |-> << <<(<< >>), 0>> >>,
     directoriesToRemove |-> << >>,
     removedDirectory |-> << >>,
     kind             |-> [n \in NodesOf(items) |-> IF n = 0 THEN "dir" ELSE "none"],
     firstJob         |-> [n \in NodesOf(items) |-> "0"],
     jobs             |-> [n \in NodesOf(items) |-> << >>],
     tasks            |-> [n \in NodesOf(items) |-> << >>],
     affected         |-> [n \in NodesOf(items) |-> InitialAffectedItems],
     anotherSyncNeeded |-> FALSE]

\* IncreaseAffected that counts every item twice
IncreaseAffected_Twice(w) ==
    LET delDirJob == Head(w.directoriesToRemove)
    IN  IF w.kind[delDirJob] = "dir"
        THEN [w EXCEPT !.affected[delDirJob] = @ + 2]
        ELSE w

\* increaseAffectedCount on the directory job at the front of directoriesToRemove
IncreaseAffected(w) ==
    LET delDirJob == Head(w.directoriesToRemove)
    IN  IF w.kind[delDirJob] = "dir"
        THEN [w EXCEPT !.affected[delDirJob] = @ + 1]
        ELSE w

\* directories.pop() until the top is a prefix of the destination
RECURSIVE PopTo(_, _)
PopTo(directories, dest) ==
    IF startsWith(dest, directories[Len(directories)][1])
    THEN directories
    ELSE PopTo(SubSeq(directories, 1, Len(directories) - 1), dest)

\* the item vector with every UPDATE_METADATA of a directory on the stack
\* set to NONE
ClearUpdateMetadata(w) ==
    LET onStack == {w.directories[i][2] : i \in 1..Len(w.directories)}
    IN  [k \in 1..Len(w.items) |->
            IF k \in onStack /\ w.items[k].instruction = "UPDATE_METADATA"
            THEN [w.items[k] EXCEPT !.instruction = "NONE"]
            ELSE w.items[k]]

\* SkipBelow that leaves the directories below dest as they are
SkipBelow_FilesOnly(items, dest) ==
    [k \in 1..Len(items) |->
        IF startsWith(destination(items[k]), dest \o <<"/">>) /\ ~items[k].isDirectory
        THEN [items[k] EXCEPT !.instruction = "NONE"]
        ELSE items[k]]

\* the item vector with every item below dest set to NONE
SkipBelow(items, dest) ==
    [k \in 1..Len(items) |->
        IF startsWith(destination(items[k]), dest \o <<"/">>)
        THEN [items[k] EXCEPT !.instruction = "NONE"]
        ELSE items[k]]

\* the part of the loop body after the removed-directory test
WalkPlace(w0, k) ==
    LET item == w0.items[k]
        dirs == PopTo(w0.directories, destination(item))
        top  == dirs[Len(dirs)][2]
        w    == [w0 EXCEPT !.directories = dirs]
    IN  IF item.isDirectory
        THEN LET w1 == [w EXCEPT !.kind[k] = "dir", !.firstJob[k] = createJob(item)]
                 w2 == IF item.instruction = "TYPE_CHANGE" /\ item.direction = "Up"
                       THEN [w1 EXCEPT
                               !.items = SkipBelow(w1.items, destination(item)),
                               !.anotherSyncNeeded =
                                   @ \/ \E j \in 1..Len(w1.items) :
                                          startsWith(destination(w1.items[j]), destination(item) \o <<"/">>)]
                       ELSE w1
                 w3 == IF item.instruction = "REMOVE"
                       THEN [w2 EXCEPT
                               !.directoriesToRemove = <<k>> \o @,
                               !.removedDirectory = item.file \o <<"/">>,
                               !.items = ClearUpdateMetadata(w2)]
                       ELSE [w2 EXCEPT !.jobs[top] = Append(@, k)]
             IN  [w3 EXCEPT !.directories = Append(@, <<destination(item) \o <<"/">>, k>>)]
        ELSE IF item.instruction = "TYPE_CHANGE"
             THEN [w EXCEPT
                     !.kind[k] = "leaf",
                     !.directoriesToRemove = <<k>> \o @,
                     !.removedDirectory = item.file \o <<"/">>]
             ELSE [w EXCEPT !.kind[k] = "task", !.tasks[top] = Append(@, k)]

\* WalkItem that keeps the ignored items of a removed directory
WalkItem_IgnoreKept(w, k) ==
    LET item == w.items[k]
    IN  IF w.removedDirectory # << >> /\ startsWith(item.file, w.removedDirectory)
        THEN CASE item.instruction = "REMOVE" -> IncreaseAffected(w)
               [] item.isDirectory /\ item.instruction \in {"NEW", "TYPE_CHANGE"} -> IncreaseAffected(w)
               [] OTHER -> WalkPlace(w, k)
        ELSE WalkPlace(w, k)

\* one iteration of the loop over the items
WalkItem(w, k) ==
    LET item == w.items[k]
    IN  IF w.removedDirectory # << >> /\ startsWith(item.file, w.removedDirectory)
        THEN CASE item.instruction = "REMOVE" -> IncreaseAffected(w)
               [] item.isDirectory /\ item.instruction \in {"NEW", "TYPE_CHANGE"} -> IncreaseAffected(w)
               [] item.instruction = "IGNORE" -> w
               [] OTHER -> WalkPlace(w, k)
        ELSE WalkPlace(w, k)

RECURSIVE Walk(_, _)
Walk(w, k) == IF k > Len(w.items) THEN w ELSE Walk(WalkItem(w, k), k + 1)

\* the jobs OwncloudPropagator::start builds
JobTree(items) ==
    LET w == Walk(WalkInit(items), 1)
    IN  [w EXCEPT !.jobs[0] = @ \o w.directoriesToRemove]

\* the range of a sequence
Range(q) == {q[i] : i \in 1..Len(q)}

\* the sequence q without the element x
RECURSIVE Without(_, _)
Without(q, x) ==
    IF q = << >> THEN << >>
    ELSE IF Head(q) = x THEN Without(Tail(q), x)
    ELSE <<Head(q)>> \o Without(Tail(q), x)

\* the directory whose composite holds job or task n, -1 for the root and
\* for the items no job was made for
ParentIn(w, n) ==
    LET holders == {d \in NodesOf(w.items) : n \in Range(w.jobs[d]) \cup Range(w.tasks[d])}
    IN  IF holders = {} THEN -1 ELSE CHOOSE d \in holders : TRUE

\* the jobs as constructed: PropagatorJob's _state is NotYetStarted, the
\* composite's _hasError is NoStatus, _firstJob is createJob(item); emitted
\* and subEmitted are history: how often the directory job and the composite
\* of its sub jobs have emitted finished; emittedWith is history: the status
\* a directory job emitted finished with
NewJobs(w) ==
    [n \in NodesOf(w.items) |->
        [kind      |-> w.kind[n],
         state     |-> "NotYetStarted",
         first     |-> IF w.kind[n] = "dir" /\ w.firstJob[n] # "0" THEN "NotYetStarted" ELSE "Absent",
         sub       |-> "NotYetStarted",
         jobsToDo  |-> w.jobs[n],
         tasksToDo |-> w.tasks[n],
         running   |-> << >>,
         hasError  |-> "NoStatus",
         worst     |-> "NoStatus",
         affected  |-> w.affected[n],
         parent    |-> ParentIn(w, n),
         restoreJob |-> NoRestoreJob,
         shared    |-> NoSharedCheck,
         emitted   |-> 0,
         subEmitted |-> 0,
         emittedWith |-> "none"]]

---------------------------------------------------------------------------
(* Scheduling *)

DefaultMaxParallel == 6

\* OwncloudPropagator::hardMaximumActiveJob
hardMaximumActiveJob == IF maxParallel = 0 THEN DefaultMaxParallel ELSE maxParallel

\* qCeil(n / 2.)
qCeilHalf(n) == (n + 1) \div 2

\* OwncloudPropagator::maximumActiveTransferJob
maximumActiveTransferJob == IF limited THEN 1 ELSE qCeilHalf(hardMaximumActiveJob)

\* PropagatorJob::isLikelyFinishedQuickly of the job of an item
isLikelyFinishedQuickly(item) == item.size < QuickSizeLimit

\* parallelism() of the job of an item
ItemParallelism(item) == item.parallelism

\* PropagateDirectory::parallelism and, for a leaf, the job's own
RECURSIVE parallelism(_, _)
parallelism(t, n) ==
    IF t[n].kind = "dir"
    THEN LET notFull == {i \in 1..Len(t[n].running) : parallelism(t, t[n].running[i]) # "FullParallelism"}
         IN  IF t[n].first \in {"NotYetStarted", "Running"}
                /\ ItemParallelism(syncItems[n]) # "FullParallelism"
             THEN "WaitForFinished"
             ELSE IF notFull # {} THEN "WaitForFinished" ELSE "FullParallelism"
    ELSE ItemParallelism(syncItems[n])

\* what a call of scheduleSelfOrChild gives: the value returned, the jobs
\* after it, the leaves started and the composites that posted finalize
Scheduled(ret, t, leaves, posted) == [ret |-> ret, tree |-> t, leaves |-> leaves, posted |-> posted]

\* PropagateItemJob::scheduleSelfOrChild of the job of item n, a first job
\* when n is a directory
PropagateItemJob_scheduleSelfOrChild(t, n, posted) ==
    IF t[n].kind = "dir"
    THEN IF t[n].first # "NotYetStarted"
         THEN Scheduled(FALSE, t, << >>, posted)
         ELSE Scheduled(TRUE, [t EXCEPT ![n].first = "Running"], <<n>>, posted)
    ELSE IF t[n].state # "NotYetStarted"
         THEN Scheduled(FALSE, t, << >>, posted)
         ELSE Scheduled(TRUE, [t EXCEPT ![n].state = "Running"], <<n>>, posted)

RECURSIVE PropagateDirectory_scheduleSelfOrChild(_, _, _)
RECURSIVE PropagateDirectory_scheduleSelfOrChild_NoWait(_, _, _)
RECURSIVE PropagatorCompositeJob_scheduleSelfOrChild(_, _, _)
RECURSIVE RunningJobsLoop(_, _, _, _)
RECURSIVE TasksLoop(_, _, _)
RECURSIVE TasksLoop_ReturnsFalse(_, _, _)

\* PropagatorCompositeJob::possiblyRunNextJob
possiblyRunNextJob(t, next, posted) ==
    IF t[next].kind = "dir"
    THEN PropagateDirectory_scheduleSelfOrChild(t, next, posted)
    ELSE PropagateItemJob_scheduleSelfOrChild(t, next, posted)

\* PropagateDirectory::scheduleSelfOrChild without the test for a running
\* first job
PropagateDirectory_scheduleSelfOrChild_NoWait(t, n, posted) ==
    IF t[n].state = "Finished"
    THEN Scheduled(FALSE, t, << >>, posted)
    ELSE LET t1 == [t EXCEPT ![n].state = "Running"]
         IN  IF t1[n].first = "NotYetStarted"
             THEN PropagateItemJob_scheduleSelfOrChild(t1, n, posted)
             ELSE PropagatorCompositeJob_scheduleSelfOrChild(t1, n, posted)

\* PropagateDirectory::scheduleSelfOrChild
PropagateDirectory_scheduleSelfOrChild(t, n, posted) ==
    IF t[n].state = "Finished"
    THEN Scheduled(FALSE, t, << >>, posted)
    ELSE LET t1 == [t EXCEPT ![n].state = "Running"]
         IN  IF t1[n].first = "NotYetStarted"
             THEN PropagateItemJob_scheduleSelfOrChild(t1, n, posted)
             ELSE IF t1[n].first = "Running"
             THEN Scheduled(FALSE, t1, << >>, posted)
             ELSE PropagatorCompositeJob_scheduleSelfOrChild(t1, n, posted)

\* TasksLoop that returns false after it has started the job of a task
TasksLoop_ReturnsFalse(t, n, posted) ==
    IF t[n].tasksToDo # << >>
    THEN LET nextTask == Head(t[n].tasksToDo)
             t1 == [t EXCEPT ![n].tasksToDo = Tail(@)]
         IN  IF createJob(syncItems[nextTask]) = "0"
             THEN TasksLoop_ReturnsFalse([t1 EXCEPT ![nextTask].kind = "useless"], n, posted)
             ELSE [possiblyRunNextJob([t1 EXCEPT ![nextTask].kind = "leaf",
                                                 ![n].running = Append(@, nextTask)],
                                      nextTask, posted) EXCEPT !.ret = FALSE]
    ELSE IF t[n].jobsToDo = << >> /\ t[n].running = << >>
         THEN Scheduled(FALSE, t, << >>, Append(posted, n))
         ELSE Scheduled(FALSE, t, << >>, posted)

\* the loop of PropagatorCompositeJob::scheduleSelfOrChild over _tasksToDo,
\* and what follows it
TasksLoop(t, n, posted) ==
    IF t[n].tasksToDo # << >>
    THEN LET nextTask == Head(t[n].tasksToDo)
             t1 == [t EXCEPT ![n].tasksToDo = Tail(@)]
         IN  IF createJob(syncItems[nextTask]) = "0"
             THEN TasksLoop([t1 EXCEPT ![nextTask].kind = "useless"], n, posted)
             ELSE possiblyRunNextJob([t1 EXCEPT ![nextTask].kind = "leaf",
                                                ![n].running = Append(@, nextTask)],
                                     nextTask, posted)
    ELSE IF t[n].jobsToDo = << >> /\ t[n].running = << >>
         THEN Scheduled(FALSE, t, << >>, Append(posted, n))
         ELSE Scheduled(FALSE, t, << >>, posted)

\* the loop of PropagatorCompositeJob::scheduleSelfOrChild over _runningJobs
\* from index i, and what follows it
RunningJobsLoop(t, n, i, posted) ==
    IF i <= Len(t[n].running)
    THEN LET r == possiblyRunNextJob(t, t[n].running[i], posted)
         IN  IF r.ret
             THEN r
             ELSE IF parallelism(r.tree, t[n].running[i]) = "WaitForFinished"
             THEN r
             ELSE RunningJobsLoop(r.tree, n, i + 1, r.posted)
    ELSE IF t[n].jobsToDo # << >>
    THEN LET nextJob == Head(t[n].jobsToDo)
         IN  possiblyRunNextJob([t EXCEPT ![n].jobsToDo = Tail(@),
                                          ![n].running = Append(@, nextJob)],
                                nextJob, posted)
    ELSE TasksLoop(t, n, posted)

\* PropagatorCompositeJob::scheduleSelfOrChild of _subJobs of directory n
PropagatorCompositeJob_scheduleSelfOrChild(t, n, posted) ==
    IF t[n].sub = "Finished"
    THEN Scheduled(FALSE, t, << >>, posted)
    ELSE RunningJobsLoop([t EXCEPT ![n].sub = "Running"], n, 1, posted)

---------------------------------------------------------------------------
(* Completion *)

\* the statuses the jobs call done with; Restoration is given by done itself
JobStatuses ==
    {"FatalError", "NormalError", "SoftError", "Success", "Conflict", "FileIgnored"}

\* the ignore durations of the blacklist, in seconds
MinBlacklistTime == 25
MaxBlacklistTime == 100

\* an invalid SyncJournalErrorBlacklistRecord
NoEntry == [valid |-> FALSE, retryCount |-> 0, ignoreDuration |-> 0]

\* SyncJournalDb::errorBlacklistEntry
errorBlacklistEntry(table, file) ==
    IF \E x \in table : x.path = file
    THEN LET x == CHOOSE y \in table : y.path = file
         IN  [valid |-> TRUE, retryCount |-> intValue(x.retrycount),
              ignoreDuration |-> intValue(x.ignoreDuration)]
    ELSE NoEntry

\* what SyncJournalErrorBlacklistRecord::update makes of the item's error: it
\* is not blacklisted, it is kept for tracking only, or it is to be ignored
\* for a while
UpdateOutcomes == {"NotBlacklisted", "Tracked", "Suppressed"}

\* SyncJournalErrorBlacklistRecord::update
update(oldEntry, outcome) ==
    IF outcome = "NotBlacklisted"
    THEN NoEntry
    ELSE [valid |-> TRUE, retryCount |-> oldEntry.retryCount + 1,
          ignoreDuration |-> IF outcome = "Tracked"
                             THEN 0
                             ELSE IF 2 * oldEntry.ignoreDuration < MinBlacklistTime
                             THEN MinBlacklistTime
                             ELSE IF 2 * oldEntry.ignoreDuration > MaxBlacklistTime
                                  THEN MaxBlacklistTime
                                  ELSE 2 * oldEntry.ignoreDuration]

\* the blacklist row of an entry
ErrorBlacklistRow(file, entry) ==
    BlacklistRow([file |-> file, lastTryEtag |-> "", lastTryModtime |-> 0,
                  retryCount |-> entry.retryCount, errorString |-> "err",
                  lastTryTime |-> 0, ignoreDuration |-> entry.ignoreDuration])

\* the blacklist table after blacklistCheck
BlacklistChecked(table, item, outcome) ==
    LET oldEntry == errorBlacklistEntry(table, item.file)
        newEntry == update(oldEntry, outcome)
    IN  IF newEntry.valid
        THEN {x \in table : x.path # item.file} \cup {ErrorBlacklistRow(item.file, newEntry)}
        ELSE {x \in table : x.path # item.file}

\* blacklistCheck that suppresses whenever the new entry is valid
blacklistCheck_AnyDuration(table, item, outcome) ==
    LET newEntry == update(errorBlacklistEntry(table, item.file), outcome)
    IN  newEntry.valid

\* blacklistCheck: whether the error is to be suppressed
blacklistCheck(table, item, outcome) ==
    LET newEntry == update(errorBlacklistEntry(table, item.file), outcome)
    IN  newEntry.valid /\ newEntry.ignoreDuration > 0

\* StatusBeforeBlacklist that does not look at _abortRequested
StatusBeforeBlacklist_NoDowngrade(item, status, abort) ==
    IF item.isRestoration /\ status \in {"Success", "Conflict"} THEN "Restoration" ELSE status

\* PropagateItemJob::done: the status before the blacklist is consulted
StatusBeforeBlacklist(item, status, abort) ==
    LET restored == IF item.isRestoration /\ status \in {"Success", "Conflict"}
                    THEN "Restoration" ELSE status
    IN  IF abort /\ restored \in {"NormalError", "FatalError"} THEN "SoftError" ELSE restored

\* ConsultsBlacklist for every error, whatever the item allows
ConsultsBlacklist_AnyError(item, status) ==
    status \in {"SoftError", "FatalError", "NormalError"}

\* ConsultsBlacklist for normal errors only
ConsultsBlacklist_NormalOnly(item, status) ==
    status = "NormalError"

\* PropagateItemJob::done: the blacklist is consulted
ConsultsBlacklist(item, status) ==
    /\ status \in {"SoftError", "FatalError", "NormalError"}
    /\ status = "NormalError" \/ item.errorMayBeBlacklisted

\* PropagateItemJob::done: the status given to the item and emitted
DoneStatus(table, item, status, abort, outcome) ==
    LET st == StatusBeforeBlacklist(item, status, abort)
    IN  IF ConsultsBlacklist(item, st) /\ blacklistCheck(table, item, outcome)
           /\ item.hasBlacklistEntry
        THEN "FileIgnored"
        ELSE st

\* DoneBlacklist that wipes the entry of the item's file only
DoneBlacklist_KeepOriginal(table, item, status, abort, outcome) ==
    LET st == StatusBeforeBlacklist(item, status, abort)
    IN  IF ConsultsBlacklist(item, st)
        THEN BlacklistChecked(table, item, outcome)
        ELSE IF st \in {"Success", "Restoration"} /\ item.hasBlacklistEntry
        THEN {x \in table : x.path # item.file}
        ELSE table

\* PropagateItemJob::done: the _errorString of the item afterwards, done
\* being called with status and errorString
DoneErrorString(table, item, status, errorString, abort, outcome) ==
    LET own == IF item.isRestoration
               THEN IF status \in {"Success", "Conflict"}
                    THEN item.errorString
                    ELSE item.errorString \o <<"; Restoration Failed: ">> \o errorString
               ELSE IF item.errorString = << >> THEN errorString ELSE item.errorString
    IN  IF DoneStatus(table, item, status, abort, outcome)
             # StatusBeforeBlacklist(item, status, abort)
        THEN <<"Continue blacklisting:", " ">> \o own
        ELSE own

\* PropagateItemJob::done: the blacklist table afterwards
DoneBlacklist(table, item, status, abort, outcome) ==
    LET st == StatusBeforeBlacklist(item, status, abort)
    IN  IF ConsultsBlacklist(item, st)
        THEN BlacklistChecked(table, item, outcome)
        ELSE IF st \in {"Success", "Restoration"} /\ item.hasBlacklistEntry
        THEN {x \in table : x.path # item.file /\ x.path # item.originalFile}
        ELSE table

\* SyncJournalFileRecord(*_item, ...) of a directory item
DirectoryRecord(item) ==
    [path |-> item.file, inode |-> I64(0, 0), mode |-> 0, modtime |-> 0, type |-> TypeDir,
     etag |-> "", fileId |-> "", remotePerm |-> "", fileSize |-> I64(0, item.size)]

\* the state the slots of a completion work on
Completion(t, its, md) ==
    [tree |-> t, items |-> its, metadata |-> md, reschedule |-> 0, written |-> {}, root |-> "none",
     fatal |-> FALSE]

RECURSIVE PropagatorCompositeJob_slotSubJobFinished(_, _, _, _, _)
RECURSIVE PropagatorCompositeJob_finalize(_, _, _)
RECURSIVE PropagateDirectory_slotSubJobsFinished(_, _, _, _)

\* emit finished(status) of job n: the root is connected to
\* OwncloudPropagator::emitFinished, every other job to slotSubJobFinished of
\* the composite that holds it
EmitFinished(c0, n, status, failAt) ==
    LET c == [c0 EXCEPT !.fatal = @ \/ status = "FatalError",
                        !.tree[n].emitted = @ + 1,
                        !.tree[n].emittedWith = IF c0.tree[n].kind = "dir" THEN status ELSE @]
    IN  IF n = 0
        THEN [c EXCEPT !.root = IF @ = "none" THEN status ELSE @]
        ELSE PropagatorCompositeJob_slotSubJobFinished(c, c.tree[n].parent, n, status, failAt)

\* PropagateDirectory::slotSubJobsFinished of directory n; the write of the
\* metadata row fails for directory failAt
PropagateDirectory_slotSubJobsFinished(c, n, status, failAt) ==
    IF n = 0
    THEN EmitFinished([c EXCEPT !.tree[n].state = "Finished"], n, status, failAt)
    ELSE
    LET item    == c.items[n]
        updates == item.file # << >> /\ status = "Success"
        renamed == updates /\ item.renameTarget # << >>
        item1   == IF renamed THEN [item EXCEPT !.file = item.renameTarget] ELSE item
        md1     == IF renamed /\ item.instruction = "RENAME" /\ item.originalFile # item.renameTarget
                   THEN DeleteRecursively(DeleteByPhash(c.metadata, item.originalFile), item.originalFile)
                   ELSE c.metadata
        writes  == updates /\ item.instruction \in {"RENAME", "NEW", "UPDATE_METADATA"}
        ok      == n # failAt
        status1 == IF writes /\ ~ok THEN "FatalError" ELSE status
        md2     == IF writes /\ ok
                   THEN InsertOrReplace(md1, MetadataRow(DirectoryRecord(item1), filter))
                   ELSE md1
    IN  EmitFinished([c EXCEPT !.items[n] = item1,
                               !.metadata = md2,
                               !.written = IF writes /\ ok THEN @ \cup {n} ELSE @,
                               !.tree[n].state = "Finished"],
                     n, status1, failAt)

\* PropagatorCompositeJob::finalize that does not ignore the duplicate calls
PropagatorCompositeJob_finalize_Again(c, n, failAt) ==
    PropagateDirectory_slotSubJobsFinished(
        [c EXCEPT !.tree[n].sub = "Finished", !.tree[n].subEmitted = @ + 1], n,
        IF c.tree[n].hasError = "NoStatus" THEN "Success" ELSE c.tree[n].hasError,
        failAt)

\* PropagatorCompositeJob::finalize of _subJobs of directory n
PropagatorCompositeJob_finalize(c, n, failAt) ==
    IF c.tree[n].sub = "Finished"
    THEN c
    ELSE PropagateDirectory_slotSubJobsFinished(
             [c EXCEPT !.tree[n].sub = "Finished", !.tree[n].subEmitted = @ + 1], n,
             IF c.tree[n].hasError = "NoStatus" THEN "Success" ELSE c.tree[n].hasError,
             failAt)

\* NothingLeft that does not look at _runningJobs
NothingLeft_ButRunning(job) == job.jobsToDo = << >> /\ job.tasksToDo = << >>

\* the test slotSubJobFinished makes before finalize: _jobsToDo, _tasksToDo
\* and _runningJobs are empty
NothingLeft(job) == job.jobsToDo = << >> /\ job.tasksToDo = << >> /\ job.running = << >>

\* the rank of a status: FatalError over NormalError over SoftError over the
\* rest
Severity(status) ==
    CASE status = "FatalError" -> 3
      [] status = "NormalError" -> 2
      [] status = "SoftError" -> 1
      [] OTHER -> 0

\* slotSubJobFinished that leaves the sub job in _runningJobs
PropagatorCompositeJob_slotSubJobFinished_Kept(c, n, subJob, status, failAt) ==
    LET c1 == [c EXCEPT !.tree[n].hasError =
                            IF status \in {"FatalError", "NormalError", "SoftError"}
                            THEN status ELSE @,
                        !.tree[n].worst =
                            IF Severity(status) > Severity(@) THEN status ELSE @]
    IN  [c1 EXCEPT !.reschedule = @ + 1]

\* PropagatorCompositeJob::slotSubJobFinished of _subJobs of directory n,
\* called by subJob; worst is history: the most severe status a sub job
\* finished with
PropagatorCompositeJob_slotSubJobFinished(c, n, subJob, status, failAt) ==
    LET c1 == [c EXCEPT !.tree[n].running = Without(@, subJob),
                        !.tree[n].hasError =
                            IF status \in {"FatalError", "NormalError", "SoftError"}
                            THEN status ELSE @,
                        !.tree[n].worst =
                            IF Severity(status) > Severity(@) THEN status ELSE @]
    IN  IF NothingLeft(c1.tree[n])
        THEN PropagatorCompositeJob_finalize(c1, n, failAt)
        ELSE [c1 EXCEPT !.reschedule = @ + 1]

\* slotFirstJobFinished that goes on to the sub jobs whatever the status
PropagateDirectory_slotFirstJobFinished_GoesOn(c, n, status, failAt) ==
    [c EXCEPT !.tree[n].first = "Taken", !.reschedule = @ + 1]

\* PropagateDirectory::slotFirstJobFinished of directory n
PropagateDirectory_slotFirstJobFinished(c, n, status, failAt) ==
    LET c1 == [c EXCEPT !.tree[n].first = "Taken"]
    IN  IF status # "Success" /\ status # "Restoration"
        THEN EmitFinished([c1 EXCEPT !.tree[n].state = "Finished"], n, status, failAt)
        ELSE [c1 EXCEPT !.reschedule = @ + 1]

---------------------------------------------------------------------------
(* The propagator *)

\* largest number of items of a vector
MaxItems == 3

\* the instructions the directories of the vectors carry
DirectoryInstructions == {"NEW", "UPDATE_METADATA", "IGNORE"}

\* the size of the file at a path
SizeOf(path) == IF path = PDA THEN SmallSize ELSE LargeSize

\* the paths whose item can come with a blacklist entry
BlacklistedPaths == {PF}

\* the paths whose item can be a restoration
RestorationPaths == {PDS}

\* the items there can be for a path
ItemsFor(path) ==
    LET plain == IF path \in DirectoryPaths
                 THEN {Item(path, i, TRUE, 0) : i \in DirectoryInstructions}
                 ELSE {Item(path, "NEW", FALSE, SizeOf(path))}
    IN  plain \cup {[x EXCEPT !.isRestoration = TRUE] :
                       x \in {y \in plain : y.file \in RestorationPaths /\ y.instruction = "NEW"}}

\* the k-th smallest element of a set of numbers
RECURSIVE Nth(_, _)
Nth(S, k) ==
    LET m == CHOOSE x \in S : \A y \in S : x <= y
    IN  IF k = 1 THEN m ELSE Nth(S \ {m}, k - 1)

\* the vectors over the paths chosen by S, in the order of ItemPaths
VectorsOver(S) ==
    {v \in [1..Cardinality(S) -> UNION {ItemsFor(ItemPaths[i]) : i \in S}] :
        \A k \in 1..Cardinality(S) : v[k].file = ItemPaths[Nth(S, k)]}

\* the sorted item vectors OwncloudPropagator::start is called with
ItemVectors ==
    UNION {VectorsOver(S) : S \in {T \in SUBSET (1..Len(ItemPaths)) : Cardinality(T) <= MaxItems}}

\* the values OWNCLOUD_MAX_PARALLEL is set to
MaxParallelValues == {2, 3}

\* the blacklist rows of the items that come with _hasBlacklistEntry: one
\* for the path and one for the path before the move
BlacklistOf(its) ==
    {ErrorBlacklistRow(f, [valid |-> TRUE, retryCount |-> 1, ignoreDuration |-> MinBlacklistTime]) :
        f \in UNION {{its[k].file, its[k].originalFile} : k \in {j \in 1..Len(its) : its[j].hasBlacklistEntry}}}

\* OwncloudPropagator::start
start(its, env) ==
    /\ ~started
    /\ started' = TRUE
    /\ LET w == JobTree(its)
       IN  /\ syncItems' = w.items
           /\ tree' = NewJobs(w)
           /\ anotherSyncNeeded' = w.anotherSyncNeeded
           /\ finalizeQueue' = [n \in NodesOf(its) |-> 0]
           /\ firstStatus' = [n \in NodesOf(its) |-> "none"]
    /\ maxParallel' = env
    /\ blacklist' = BlacklistOf(its)
    /\ scheduled' = 1
    /\ UNCHANGED <<activeJobList, abortRequested, limited, remoteFolder, rootFinished, metaWritten,
                   completed, fatalEmitted>>
    /\ UNCHANGED <<dbOpen, transaction, metadata, filter, downloadinfo, last>>
    /\ UNCHANGED <<threadVars, netVars, moreVars>>

\* the jobs among the first maximumActiveTransferJob active ones that are
\* likely finished quickly
likelyFinishedQuicklyCount ==
    Cardinality({i \in 1..Len(activeJobList) :
                    /\ i <= maximumActiveTransferJob
                    /\ isLikelyFinishedQuickly(syncItems[activeJobList[i]])})

\* AsksRootJob without the count of the jobs likely finished quickly: below
\* the hard maximum the root job is always asked
AsksRootJob_NoQuickCount ==
    IF Len(activeJobList) < maximumActiveTransferJob
    THEN TRUE
    ELSE Len(activeJobList) < hardMaximumActiveJob

\* scheduleNextJobImpl: the root job is asked to schedule
AsksRootJob ==
    IF Len(activeJobList) < maximumActiveTransferJob
    THEN TRUE
    ELSE IF Len(activeJobList) < hardMaximumActiveJob
         THEN Len(activeJobList) < maximumActiveTransferJob + likelyFinishedQuicklyCount
         ELSE FALSE

\* Posted for composites that post no call of finalize
Posted_None(queue, posted) == queue

\* the posted calls of finalize after the composites in posted have posted one
Posted(queue, posted) ==
    [n \in DOMAIN queue |-> queue[n] + Cardinality({i \in 1..Len(posted) : posted[i] = n})]

\* OwncloudPropagator::scheduleNextJobImpl, one posted call of it
scheduleNextJobImpl ==
    /\ started
    /\ scheduled > 0
    /\ IF AsksRootJob
       THEN LET r == PropagateDirectory_scheduleSelfOrChild(tree, 0, << >>)
            IN  /\ tree' = r.tree
                /\ activeJobList' = activeJobList \o r.leaves
                /\ finalizeQueue' = Posted(finalizeQueue, r.posted)
                /\ scheduled' = IF r.ret THEN scheduled ELSE scheduled - 1
       ELSE /\ scheduled' = scheduled - 1
            /\ UNCHANGED <<tree, activeJobList, finalizeQueue>>
    /\ UNCHANGED <<started, syncItems, abortRequested, limited, maxParallel, remoteFolder, anotherSyncNeeded,
                   rootFinished, metaWritten, firstStatus, completed, fatalEmitted>>
    /\ UNCHANGED <<journalVars, threadVars, netVars, moreVars>>

\* the leaves that are running
RunningLeaves ==
    {n \in DOMAIN tree : \/ tree[n].kind = "leaf" /\ tree[n].state = "Running"
                         \/ tree[n].kind = "dir" /\ tree[n].first = "Running"}

\* the variables after the slots of a completion have run
Completed(c) ==
    /\ tree' = c.tree
    /\ syncItems' = c.items
    /\ metadata' = c.metadata
    /\ scheduled' = scheduled + c.reschedule
    /\ metaWritten' = metaWritten \cup c.written
    /\ rootFinished' = IF rootFinished = "none" THEN c.root ELSE rootFinished
    /\ fatalEmitted' = (fatalEmitted \/ c.fatal)

\* PropagateItemJob::done of the running job of item n, called with status,
\* the jobs being t; the slots connected to its finished signal run inside it
doneOn(t, n, status, errorString, outcome, failAt) ==
    /\ started
    /\ n \in DOMAIN t
    /\ \/ t[n].kind = "leaf" /\ t[n].state = "Running"
       \/ t[n].kind = "dir" /\ t[n].first = "Running"
    /\ LET item == syncItems[n]
           st   == DoneStatus(blacklist, item, status, abortRequested, outcome)
           c    == [Completion(IF t[n].kind = "dir" THEN t ELSE [t EXCEPT ![n].state = "Finished"],
                               syncItems, metadata)
                       EXCEPT !.fatal = (st = "FatalError")]
       IN  /\ blacklist' = DoneBlacklist(blacklist, item, status, abortRequested, outcome)
           /\ completed' = [item |-> n, called |-> status, abort |-> abortRequested,
                            outcome |-> outcome, status |-> st,
                            suppressed |-> (st # StatusBeforeBlacklist(item, status, abortRequested)),
                            before |-> blacklist,
                            errorString |-> DoneErrorString(blacklist, item, status, errorString,
                                                            abortRequested, outcome)]
           /\ IF t[n].kind = "dir"
              THEN /\ Completed(PropagateDirectory_slotFirstJobFinished(c, n, st, failAt))
                   /\ firstStatus' = [firstStatus EXCEPT ![n] = st]
              ELSE /\ Completed(PropagatorCompositeJob_slotSubJobFinished(c, t[n].parent, n, st, failAt))
                   /\ UNCHANGED firstStatus
           /\ abortRequested' = (abortRequested \/ st = "FatalError")
    /\ activeJobList' = Without(activeJobList, n)
    /\ UNCHANGED <<started, finalizeQueue, limited, maxParallel, remoteFolder, anotherSyncNeeded>>
    /\ UNCHANGED <<dbOpen, transaction, filter, downloadinfo, last>>
    /\ UNCHANGED <<threadVars, netVars, moreVars>>

\* the error string a job calls done with
JobErrorString(status) ==
    IF status \in {"SoftError", "NormalError", "FatalError"} THEN <<"error">> ELSE << >>

\* PropagateItemJob::done of the running job of item n
done(n, status, outcome, failAt) ==
    doneOn(tree, n, status, JobErrorString(status), outcome, failAt)

\* PropagatorCompositeJob::finalize of directory n, one posted call of it
finalize(n, failAt) ==
    /\ started
    /\ n \in DOMAIN finalizeQueue
    /\ finalizeQueue[n] > 0
    /\ finalizeQueue' = [finalizeQueue EXCEPT ![n] = @ - 1]
    /\ Completed(PropagatorCompositeJob_finalize(Completion(tree, syncItems, metadata), n, failAt))
    /\ UNCHANGED <<started, activeJobList, abortRequested, limited, maxParallel, remoteFolder, anotherSyncNeeded,
                   firstStatus, completed>>
    /\ UNCHANGED <<dbOpen, transaction, filter, downloadinfo, blacklist, last>>
    /\ UNCHANGED <<threadVars, netVars, moreVars>>

\* a bandwidth limit is set or lifted
setNetworkLimits(on) ==
    /\ started
    /\ limited # on
    /\ limited' = on
    /\ UNCHANGED <<started, syncItems, tree, activeJobList, scheduled, finalizeQueue, abortRequested,
                   maxParallel, remoteFolder, anotherSyncNeeded, rootFinished, metaWritten, firstStatus,
                   completed, fatalEmitted>>
    /\ UNCHANGED <<journalVars, threadVars, netVars, moreVars>>

\* the directory whose metadata row fails to be written, -1 for none
WriteFailures ==
    {-1} \cup {n \in DOMAIN tree : n # 0 /\ tree[n].kind = "dir"
                                    /\ syncItems[n].instruction \in {"RENAME", "NEW", "UPDATE_METADATA"}}

\* what update makes of the errors of these vectors
PropagatedOutcomes == {"Suppressed"}

NextProp ==
    \/ \E its \in ItemVectors, env \in MaxParallelValues : start(its, env)
    \/ scheduleNextJobImpl
    \/ \E n \in RunningLeaves, status \in JobStatuses, failAt \in WriteFailures :
          \E outcome \in IF status \in {"SoftError", "FatalError", "NormalError"}
                           THEN PropagatedOutcomes ELSE {"NotBlacklisted"} :
              done(n, status, outcome, failAt)
    \/ \E n \in DOMAIN finalizeQueue, failAt \in WriteFailures : finalize(n, failAt)
    \/ \E on \in BOOLEAN : setNetworkLimits(on)

SpecProp == Init /\ [][NextProp]_vars

---------------------------------------------------------------------------
(* The propagator on item vectors with removed directories *)

PC   == <<"c">>
PCX  == <<"c", "/", "x">>
PDB  == <<"d", "/", "b">>
PDT  == <<"d", "/", "t">>

\* the destinations of the vectors with removals, in the order of operator<
RemovalPaths == <<PC, PCX, PD, PDA, PDB, PDS, PDSX, PDT>>

\* d/a moved to c/x: the item sorts at its destination
MovedItem == [Item(PDA, "RENAME", FALSE, SmallSize) EXCEPT !.renameTarget = PCX]

\* the items there can be at a destination of RemovalPaths
RemovalItemsFor(path) ==
    CASE path = PC   -> {Item(PC, "UPDATE_METADATA", TRUE, 0)}
      [] path = PCX  -> {MovedItem}
      [] path = PD   -> {Item(PD, i, TRUE, 0) : i \in {"REMOVE", "UPDATE_METADATA"}}
      [] path = PDA  -> {Item(PDA, i, FALSE, SmallSize) : i \in {"NEW", "REMOVE"}}
      [] path = PDB  -> {Item(PDB, i, FALSE, SmallSize) : i \in {"REMOVE", "IGNORE"}}
      [] path = PDS  -> {Item(PDS, "REMOVE", TRUE, 0), Item(PDS, "NEW", TRUE, 0),
                         Item(PDS, "TYPE_CHANGE", FALSE, SmallSize)}
      [] path = PDSX -> {Item(PDSX, i, FALSE, SmallSize) : i \in {"REMOVE", "NEW"}}
      [] path = PDT  -> {Item(PDT, "REMOVE", TRUE, 0)}

\* the vectors over the destinations chosen by S, in the order of RemovalPaths
RemovalVectorsOver(S) ==
    {v \in [1..Cardinality(S) -> UNION {RemovalItemsFor(RemovalPaths[i]) : i \in S}] :
        /\ \A k \in 1..Cardinality(S) : destination(v[k]) = RemovalPaths[Nth(S, k)]
        /\ \A j, k \in 1..Cardinality(S) : v[j].file = v[k].file => j = k}

\* the sorted item vectors with pairwise distinct paths
RemovalVectors ==
    UNION {RemovalVectorsOver(S) : S \in {T \in SUBSET (1..Len(RemovalPaths)) : Cardinality(T) <= MaxItems}}

\* the statuses the jobs of these vectors end with
RemovalStatuses == {"Success", "NormalError"}

NextRemoval ==
    \/ \E its \in RemovalVectors, env \in MaxParallelValues : start(its, env)
    \/ scheduleNextJobImpl
    \/ \E n \in RunningLeaves, status \in RemovalStatuses : done(n, status, "NotBlacklisted", -1)
    \/ \E n \in DOMAIN finalizeQueue : finalize(n, -1)

SpecRemoval == Init /\ [][NextRemoval]_vars

---------------------------------------------------------------------------
(* The propagator on items with blacklist entries *)

\* the items there can be for the blacklisted file f: it comes with or
\* without a blacklist entry, its errors may be blacklisted or not, it is a
\* restoration or not, and it is at its path or was moved there from d/b
BlacklistedItems ==
    {[Item(f, "NEW", FALSE, LargeSize) EXCEPT
          !.hasBlacklistEntry = had, !.errorMayBeBlacklisted = may,
          !.isRestoration = restoration, !.originalFile = from] :
        f \in BlacklistedPaths, had \in BOOLEAN, may \in BOOLEAN, restoration \in BOOLEAN,
        from \in BlacklistedPaths \cup {PDB}}

\* the sorted item vectors: the file d/a, a blacklisted file, or both
BlacklistVectors ==
    {<< >>, <<Item(PDA, "NEW", FALSE, SmallSize)>>}
    \cup {<<x>> : x \in BlacklistedItems}
    \cup {<<Item(PDA, "NEW", FALSE, SmallSize), x>> : x \in BlacklistedItems}

\* the statuses done is called with
Statuses == JobStatuses \cup {"NoStatus", "Restoration"}

\* OwncloudPropagator::abort
abort ==
    /\ started
    /\ abortRequested' = TRUE
    /\ UNCHANGED <<started, syncItems, tree, activeJobList, scheduled, finalizeQueue, limited,
                   maxParallel, remoteFolder, anotherSyncNeeded, rootFinished, metaWritten, firstStatus,
                   completed, fatalEmitted>>
    /\ UNCHANGED <<journalVars, threadVars, netVars, moreVars>>

NextPolicy ==
    \/ \E its \in BlacklistVectors, env \in MaxParallelValues : start(its, env)
    \/ scheduleNextJobImpl
    \/ \E n \in RunningLeaves, status \in Statuses, outcome \in UpdateOutcomes :
          done(n, status, outcome, -1)
    \/ \E n \in DOMAIN finalizeQueue : finalize(n, -1)
    \/ abort

SpecPolicy == Init /\ [][NextPolicy]_vars

---------------------------------------------------------------------------
(* Restoration of items removed from a read only share *)

PShared  == <<"S", "h", "a", "r", "e", "d">>
PSharedF == PShared \o <<"/", "f">>
PSharedS == PShared \o <<"/", "s">>
PSharedX == PShared \o <<"x">>

\* the remote folders a propagator is constructed with: the whole ownCloud,
\* the Shared directory, a folder below it, and another folder
RemoteFolders == {WholeCloud, PShared, PSharedS, PD}

\* the HTTP status codes of the replies
HttpCodes == {403, 404}

\* the message a job gives checkForProblemsWithShared
RestoreJobMsg == <<"It was restored.">>

\* OwncloudPropagator::isInSharedDirectory
isInSharedDirectory(file) ==
    IF startsWith(remoteFolder, PShared)
    THEN TRUE
    ELSE startsWith(file, PShared \o <<"/">>) \/ file = PShared

\* RestoreJobFor that recovers new files too
RestoreJobFor_NewRecovered(item, httpStatusCode) ==
    IF httpStatusCode = 403 /\ isInSharedDirectory(item.file)
    THEN IF ~item.isDirectory
         THEN [class |-> "PropagateDownloadFile",
               instruction |-> IF item.instruction = "SYNC" THEN "CONFLICT" ELSE "SYNC",
               direction |-> "Down", finished |-> "none"]
         ELSE [class |-> "PropagateLocalMkdir", instruction |-> "NEW",
               direction |-> "Down", finished |-> "none"]
    ELSE NoRestoreJob

\* checkForProblemsWithShared: the job it starts, NoRestoreJob if none
RestoreJobFor(item, httpStatusCode) ==
    IF httpStatusCode = 403 /\ isInSharedDirectory(item.file)
    THEN IF ~item.isDirectory
         THEN IF item.instruction \in {"NEW", "TYPE_CHANGE"}
              THEN NoRestoreJob
              ELSE [class |-> "PropagateDownloadFile",
                    instruction |-> IF item.instruction = "SYNC" THEN "CONFLICT" ELSE "SYNC",
                    direction |-> "Down", finished |-> "none"]
         ELSE [class |-> "PropagateLocalMkdir", instruction |-> "NEW",
               direction |-> "Down", finished |-> "none"]
    ELSE NoRestoreJob

\* the constructor of OwncloudPropagator, called with the remote folder
OwncloudPropagator(folder) ==
    /\ ~started
    /\ remoteFolder # folder
    /\ remoteFolder' = folder
    /\ UNCHANGED <<started, syncItems, tree, activeJobList, scheduled, finalizeQueue, abortRequested,
                   limited, maxParallel, anotherSyncNeeded, rootFinished, metaWritten, firstStatus,
                   completed, fatalEmitted>>
    /\ UNCHANGED <<journalVars, threadVars, netVars, moreVars>>

\* PropagateItemJob::checkForProblemsWithShared of the running job of item
\* n, called with the status code of the reply and RestoreJobMsg; for a
\* directory it calls SyncJournalDb::avoidRenamesOnNextSync
checkForProblemsWithShared(n, httpStatusCode, openOk) ==
    /\ started
    /\ n \in RunningLeaves
    /\ ~tree[n].shared.called
    /\ LET item   == syncItems[n]
           newJob == RestoreJobFor(item, httpStatusCode)
       IN  /\ tree' = [tree EXCEPT ![n].restoreJob = newJob,
                                   ![n].shared = [called |-> TRUE, code |-> httpStatusCode,
                                                  returned |-> (newJob # NoRestoreJob)]]
           /\ IF newJob.class = "PropagateLocalMkdir"
              THEN /\ \/ item.file \in filter
                      \/ Cardinality(filter) < MaxFilter
                   /\ anotherSyncNeeded' = TRUE
                   /\ IF checkConnect(openOk)
                      THEN /\ dbOpen' = TRUE
                           /\ metadata' = InvalidateParents(ClearRenameKeys(metadata, item.file),
                                                            item.file)
                           /\ filter' = filter \cup {item.file}
                           /\ last' = Call("avoidRenamesOnNextSync", item.file, TRUE)
                      ELSE /\ last' = Call("avoidRenamesOnNextSync", item.file, FALSE)
                           /\ UNCHANGED <<dbOpen, metadata, filter>>
              ELSE UNCHANGED <<anotherSyncNeeded, dbOpen, metadata, filter, last>>
    /\ UNCHANGED <<started, syncItems, activeJobList, scheduled, finalizeQueue, abortRequested,
                   limited, maxParallel, remoteFolder, rootFinished, metaWritten, firstStatus,
                   completed, fatalEmitted>>
    /\ UNCHANGED <<transaction, downloadinfo, blacklist>>
    /\ UNCHANGED <<threadVars, netVars, moreVars>>

\* the leaves whose restore job is running
Restoring ==
    {n \in RunningLeaves : tree[n].restoreJob # NoRestoreJob /\ tree[n].restoreJob.finished = "none"}

\* slotRestoreJobFinished that takes only Success for a restoration
slotRestoreJobFinished_SuccessOnly(n, status, outcome) ==
    /\ n \in Restoring
    /\ IF status = "Success"
       THEN doneOn([tree EXCEPT ![n].restoreJob.finished = status], n, "SoftError",
                   RestoreJobMsg, outcome, -1)
       ELSE doneOn([tree EXCEPT ![n].restoreJob.finished = status], n, status,
                   <<"A file or folder was removed from a read only share, but restoring failed: ">>
                       \o RestoreJobMsg,
                   outcome, -1)

\* PropagateItemJob::slotRestoreJobFinished of the job of item n: the
\* restore job has emitted finished(status)
slotRestoreJobFinished(n, status, outcome) ==
    /\ n \in Restoring
    /\ IF status \in {"Success", "Conflict", "Restoration"}
       THEN doneOn([tree EXCEPT ![n].restoreJob.finished = status], n, "SoftError",
                   RestoreJobMsg, outcome, -1)
       ELSE doneOn([tree EXCEPT ![n].restoreJob.finished = status], n, status,
                   <<"A file or folder was removed from a read only share, but restoring failed: ">>
                       \o RestoreJobMsg,
                   outcome, -1)

\* the items there can be for a path: a file that was changed, removed,
\* renamed or created, or a directory that was removed or created
RestoreItemsFor(path) ==
    IF path = PSharedS
    THEN {Item(path, i, TRUE, 0) : i \in {"REMOVE", "NEW"}}
    ELSE {[Item(path, i, FALSE, SmallSize) EXCEPT
               !.hasBlacklistEntry = had, !.errorMayBeBlacklisted = had, !.isRestoration = r] :
            i \in {"SYNC", "REMOVE", "RENAME", "NEW", "TYPE_CHANGE"},
            had \in BOOLEAN, r \in BOOLEAN}

\* the item vectors: one item, in or out of the Shared directory
RestoreVectors ==
    {<<x>> : x \in UNION {RestoreItemsFor(path) : path \in {PSharedF, PSharedS, PSharedX, PShared}}}

NextRestore ==
    \/ \E folder \in RemoteFolders : OwncloudPropagator(folder)
    \/ \E its \in RestoreVectors, env \in MaxParallelValues : start(its, env)
    \/ scheduleNextJobImpl
    \/ \E n \in RunningLeaves \ Restoring, status \in JobStatuses, outcome \in UpdateOutcomes :
          done(n, status, outcome, -1)
    \/ \E n \in DOMAIN finalizeQueue : finalize(n, -1)
    \/ abort
    \/ \E n \in RunningLeaves, httpStatusCode \in HttpCodes, openOk \in BOOLEAN :
          checkForProblemsWithShared(n, httpStatusCode, openOk)
    \/ \E n \in Restoring, status \in Statuses, outcome \in UpdateOutcomes :
          slotRestoreJobFinished(n, status, outcome)

SpecRestore == Init /\ [][NextRestore]_vars

---------------------------------------------------------------------------
(* The propagator on jobs that do not run in parallel *)

\* the values of PropagatorJob::JobParallelism
JobParallelisms == {"FullParallelism", "WaitForFinished", "WaitForFinishedInParentDirectory"}

\* the items there can be for a path: a file whose job reports any of the
\* three values, a directory without a first job, or a new directory whose
\* first job reports FullParallelism or WaitForFinished
ParallelItemsFor(path) ==
    IF path \in DirectoryPaths
    THEN {Item(path, "UPDATE_METADATA", TRUE, 0)}
         \cup {[Item(path, "NEW", TRUE, 0) EXCEPT !.parallelism = par] :
                  par \in {"FullParallelism", "WaitForFinished"}}
    ELSE {[Item(path, "NEW", FALSE, SmallSize) EXCEPT !.parallelism = par] :
            par \in JobParallelisms}

\* the item vectors over the paths numbered in S, sorted
ParallelVectorsOver(S) ==
    {v \in [1..Cardinality(S) -> UNION {ParallelItemsFor(ItemPaths[i]) : i \in S}] :
        \A k \in 1..Cardinality(S) : v[k].file = ItemPaths[Nth(S, k)]}

\* the sorted item vectors
ParallelVectors ==
    UNION {ParallelVectorsOver(S) : S \in {T \in SUBSET (1..Len(ItemPaths)) : Cardinality(T) <= MaxItems}}

NextParallel ==
    \/ \E its \in ParallelVectors, env \in MaxParallelValues : start(its, env)
    \/ scheduleNextJobImpl
    \/ \E n \in RunningLeaves, status \in RemovalStatuses : done(n, status, "NotBlacklisted", -1)
    \/ \E n \in DOMAIN finalizeQueue : finalize(n, -1)

SpecParallel == Init /\ [][NextParallel]_vars

---------------------------------------------------------------------------
(* Claims about the journal *)

\* the last call was a setFileRecord that succeeded
SetFileRecordDone == last.op = "setFileRecord" /\ last.ok

\* the record read back has every field of the record written, the etag
\* either as written or, with entries in the filter, "_invalid_"
ReadsBackAsWritten(g, r) ==
    /\ g.path = r.path
    /\ g.inode = r.inode
    /\ g.mode = r.mode
    /\ g.modtime = r.modtime
    /\ g.type = r.type
    /\ g.fileId = r.fileId
    /\ g.remotePerm = r.remotePerm
    /\ g.fileSize = r.fileSize
    /\ \/ g.etag = r.etag
       \/ last.flt # {} /\ g.etag = InvalidEtag

\* C1: after setFileRecord(r) succeeds, getFileRecord(r.path) returns a
\* record equal to r in path, inode, mode, modtime, type, fileid,
\* remotePerm and filesize, and in etag unless the filter replaced it by
\* "_invalid_".
C1_SetThenGetReturnsRecord ==
    SetFileRecordDone => ReadsBackAsWritten(getFileRecord(metadata, last.path), last.rec)

\* the etag stored for the path of the last call
StoredEtag == (CHOOSE x \in RowsByPhash(metadata, last.path) : TRUE).md5

C3_RecursiveDeleteRemovesSubtree ==
    (last.op = "deleteFileRecord" /\ last.ok /\ last.flag)
        => \A q \in Paths :
              (q = last.path \/ startsWith(q, last.path \o <<"/">>))
                  => getFileRecord(metadata, q) = EmptyFileRecord

\* a directory and a path below it were stored and the directory has been
\* deleted recursively
C3_Witness ==
    /\ last.op = "deleteFileRecord" /\ last.ok /\ last.flag
    /\ last.path = PA
    /\ {PA, PAB} \subseteq last.pre

\* C4: after postSyncCleanup(K) succeeds, getFileRecordCount() is the number
\* of paths both in K and stored before: rows outside K are deleted, rows
\* in K are kept.
C4_CleanupKeepsExactlyKeepSet ==
    (last.op = "postSyncCleanup" /\ last.ok)
        => /\ getFileRecordCount(metadata) = Cardinality(last.keep \cap last.pre)
           /\ StoredPaths(metadata) = last.keep \cap last.pre

\* a cleanup has run on a store with one row to keep and one to delete
C4_Witness ==
    /\ last.op = "postSyncCleanup" /\ last.ok
    /\ last.pre \cap last.keep # {}
    /\ last.pre \ last.keep # {}

\* C5: setFileRecord(r2) for a path that already has a row (written by an
\* earlier setFileRecord(r1)) leaves exactly one row for the path, the
\* record count unchanged, and getFileRecord returns r2.
C5_SecondSetReplacesRow ==
    (SetFileRecordDone /\ last.path \in last.pre)
        => /\ Cardinality({x \in metadata : x.path = last.path}) = 1
           /\ getFileRecordCount(metadata) = last.ret
           /\ ReadsBackAsWritten(getFileRecord(metadata, last.path), last.rec)

\* C6: getDownloadInfo(p) after setDownloadInfo(p, i) returns i when
\* i.valid; when not i.valid the row is deleted and getDownloadInfo(p)
\* returns an info that is not valid.
C6_DownloadInfoRoundTrip ==
    (last.op = "setDownloadInfo" /\ last.ok)
        => IF last.info.valid
           THEN getDownloadInfo(downloadinfo, last.path) = last.info
           ELSE /\ DownloadRows(downloadinfo, last.path) = {}
                /\ ~getDownloadInfo(downloadinfo, last.path).valid

\* an invalid info has been set for a path that had a row, while another
\* path keeps a valid one
C6_Witness ==
    /\ last.op = "setDownloadInfo" /\ last.ok
    /\ ~last.info.valid
    /\ last.path \in last.pre
    /\ \E q \in Paths : q # last.path /\ getDownloadInfo(downloadinfo, q).valid

\* C7: with n blacklist rows, wipeBlacklist() returns n and
\* blackListEntryCount() right after returns 0.
C7_WipeBlacklistReturnsCount ==
    (last.op = "wipeBlacklist" /\ last.ok)
        => /\ last.ret = Cardinality(last.pre)
           /\ blackListEntryCount(blacklist) = 0

\* a blacklist with two rows has been wiped
C7_Witness ==
    /\ last.op = "wipeBlacklist" /\ last.ok
    /\ Cardinality(last.pre) = 2
    /\ last.ret = 2

---------------------------------------------------------------------------
(* Claims about the propagator *)

\* the active jobs that report isLikelyFinishedQuickly
QuickActiveJobs ==
    {i \in 1..Len(activeJobList) : isLikelyFinishedQuickly(syncItems[activeJobList[i]])}

\* ceil(hardMaximumActiveJob() / 2)
SoftBudget == (hardMaximumActiveJob + 1) \div 2

\* the smaller of two numbers
Minimum(a, b) == IF a < b THEN a ELSE b

\* C8: in every state of a started propagator the number of active leaf jobs
\* is at most hardMaximumActiveJob(), and while no upload or download limit is
\* set it is at most softBudget + min(softBudget, number of active jobs that
\* report isLikelyFinishedQuickly), softBudget being ceil(hardMaximumActiveJob()/2)
C8_ActiveJobsWithinBudget ==
    started =>
        /\ Len(activeJobList) <= hardMaximumActiveJob
        /\ ~limited =>
              Len(activeJobList) <= SoftBudget + Minimum(SoftBudget, Cardinality(QuickActiveJobs))

\* the items that still wait in the _tasksToDo or _jobsToDo of a composite
\* that has started
WaitingJobs ==
    {n \in DOMAIN tree : \E d \in DOMAIN tree :
        /\ tree[d].sub = "Running"
        /\ n \in Range(tree[d].tasksToDo) \cup Range(tree[d].jobsToDo)}

\* C8 witness: no limit is set, the hard maximum of jobs is active, more than
\* the soft budget because one of them is likely finished quickly, and a
\* further item waits in a started composite
C8_Witness ==
    /\ started
    /\ ~limited
    /\ Len(activeJobList) = hardMaximumActiveJob
    /\ Len(activeJobList) > SoftBudget
    /\ QuickActiveJobs # {}
    /\ WaitingJobs # {}

\* job or task x is held, at some depth, by directory n
RECURSIVE IsBelow(_, _)
IsBelow(x, n) ==
    /\ tree[x].parent # -1
    /\ tree[x].parent = n \/ IsBelow(tree[x].parent, n)

\* the jobs and tasks directory n holds, at any depth
Descendants(n) == {x \in DOMAIN tree : x # n /\ IsBelow(x, n)}

\* the directory jobs that were constructed with a first job
DirectoriesWithFirstJob == {n \in DOMAIN tree : tree[n].kind = "dir" /\ tree[n].first # "Absent"}

\* job or task x has left NotYetStarted: it is a job that is Running or
\* Finished, or a directory whose first job or composite is
HasLeftNotYetStarted(x) ==
    /\ tree[x].kind \in {"dir", "leaf"}
    /\ \/ tree[x].state # "NotYetStarted"
       \/ tree[x].kind = "dir" /\ tree[x].first \in {"Running", "Taken"}
       \/ tree[x].kind = "dir" /\ tree[x].sub # "NotYetStarted"

\* C9: for every directory job that has a first job, as long as the first job
\* has not finished with Success or Restoration, the directory's composite and
\* every job and task it holds, at any depth, are NotYetStarted
C9_ChildrenWaitForFirstJob ==
    \A n \in DirectoriesWithFirstJob :
        firstStatus[n] \notin {"Success", "Restoration"} =>
            /\ tree[n].sub = "NotYetStarted"
            /\ \A x \in Descendants(n) : ~HasLeftNotYetStarted(x)

\* C9 witness: the first job of a directory has finished with Success, a
\* directory it holds has been started, and that directory's own first job is
\* running while the task it holds waits
C9_Witness ==
    \E n \in DirectoriesWithFirstJob, m \in DirectoriesWithFirstJob :
        /\ firstStatus[n] = "Success"
        /\ m \in Descendants(n)
        /\ tree[m].first = "Running"
        /\ \E x \in Descendants(m) : tree[x].kind = "task"

\* job or task x has come to its end: a job that is Finished, with its first
\* job when it is a directory, or a task no job is made for
HasFinished(x) ==
    \/ tree[x].kind = "useless"
    \/ tree[x].kind = "leaf" /\ tree[x].state = "Finished"
    \/ /\ tree[x].kind = "dir"
       /\ tree[x].state = "Finished"
       /\ tree[x].first \in {"Absent", "Taken"}

\* job or task x is Running, or is a directory whose first job is
IsRunning(x) ==
    \/ tree[x].kind = "leaf" /\ tree[x].state = "Running"
    \/ tree[x].kind = "dir" /\ (tree[x].state = "Running" \/ tree[x].first = "Running")

\* C10 as stated: once the metadata row of a directory is written, every job
\* and task the directory holds, at any depth, has reached Finished
C10_MetadataAfterAllDescendantsFinished ==
    \A n \in metaWritten : \A x \in Descendants(n) : HasFinished(x)

\* directory y was finished by slotFirstJobFinished because its first job
\* ended with a status other than Success and Restoration
AbortedByFirstJob(y) ==
    /\ tree[y].kind = "dir"
    /\ tree[y].state = "Finished"
    /\ firstStatus[y] \notin {"none", "Success", "Restoration"}

\* C10 amended: once the metadata row of a directory is written, no job it
\* holds, at any depth, is Running, and every job and task it holds has
\* reached Finished or lies in a directory below it that was finished by the
\* failure of its first job
C10_MetadataAfterDescendantsFinishedOrAborted ==
    \A n \in metaWritten : \A x \in Descendants(n) :
        /\ ~IsRunning(x)
        /\ \/ HasFinished(x)
           \/ \E y \in Descendants(n) : AbortedByFirstJob(y) /\ IsBelow(x, y)

\* C10 witness: the rows of a directory and of a directory it holds are
\* written, and the file job the inner directory holds has finished
C10_Witness ==
    \E n \in metaWritten, y \in metaWritten :
        /\ y \in Descendants(n)
        /\ \E x \in Descendants(y) : tree[x].kind = "leaf" /\ tree[x].state = "Finished"

---------------------------------------------------------------------------
(* Claims about the job tree OwncloudPropagator::start builds *)

\* start has returned and no scheduling pass has run yet
Untouched ==
    /\ started
    /\ \A n \in DOMAIN tree : tree[n].state = "NotYetStarted" /\ tree[n].sub = "NotYetStarted"

\* the places of job or task k in the lists of the composites
Places(k) ==
    {x \in (DOMAIN tree) \X (1..Len(syncItems)) \X {"job", "task"} :
        LET q == IF x[3] = "job" THEN tree[x[1]].jobsToDo ELSE tree[x[1]].tasksToDo
        IN  x[2] <= Len(q) /\ q[x[2]] = k}

\* item k has its one job: a directory job for a directory, a job or a
\* pending task for anything else, held by exactly one composite
HasOneJob(k) ==
    /\ Cardinality(Places(k)) = 1
    /\ IF syncItems[k].isDirectory
       THEN tree[k].kind = "dir"
       ELSE tree[k].kind \in {"task", "leaf"}

\* item k has no job at all
HasNoJob(k) == Places(k) = {} /\ tree[k].kind = "none"

\* the item defers a removal: a removed directory, or a file that replaces a
\* directory
Defers(item) ==
    \/ item.isDirectory /\ item.instruction = "REMOVE"
    \/ ~item.isDirectory /\ item.instruction = "TYPE_CHANGE"

\* item j lies below the pending removal p and is one of those it takes care of
CoveredBy(its, j, p) ==
    /\ p # 0
    /\ startsWith(its[j].file, its[p].file \o <<"/">>)
    /\ \/ its[j].instruction = "REMOVE"
       \/ its[j].isDirectory /\ its[j].instruction \in {"NEW", "TYPE_CHANGE"}
       \/ its[j].instruction = "IGNORE"

\* the item whose removal is pending when item k is met, 0 for none
RECURSIVE PendingRemoval(_, _)
PendingRemoval(its, k) ==
    IF k = 1 THEN 0
    ELSE LET p == PendingRemoval(its, k - 1)
         IN  IF Defers(its[k - 1]) /\ ~CoveredBy(its, k - 1, p) THEN k - 1 ELSE p

\* start skips item k: it is taken care of by the pending removal
SkippedByStart(k) == CoveredBy(syncItems, k, PendingRemoval(syncItems, k))

\* C11 as claimed: the job tree built by start has exactly one leaf (job or
\* pending task) for every non-directory item and exactly one directory job
\* for every directory item, each held by exactly one parent
C11_OneJobPerItem ==
    Untouched => \A k \in 1..Len(syncItems) : HasOneJob(k)

\* C11 as amended: the job tree built by start has exactly one job or pending
\* task, held by exactly one parent, for every item but those it skips inside
\* a pending removed directory, and these have no job
C11_OneJobPerItemNotSkipped ==
    Untouched =>
        \A k \in 1..Len(syncItems) : IF SkippedByStart(k) THEN HasNoJob(k) ELSE HasOneJob(k)

\* a tree of three items has been built, one skipped and one kept below the
\* same removed directory
C11_Witness ==
    /\ Untouched
    /\ Len(syncItems) = 3
    /\ \E j, k \in 1..Len(syncItems) :
          /\ SkippedByStart(k)
          /\ ~SkippedByStart(j)
          /\ PendingRemoval(syncItems, j) = PendingRemoval(syncItems, k)
          /\ PendingRemoval(syncItems, j) # 0
          /\ startsWith(syncItems[j].file, syncItems[PendingRemoval(syncItems, j)].file \o <<"/">>)

\* the directory items with instruction REMOVE
RemovedDirectories ==
    {r \in 1..Len(syncItems) : syncItems[r].isDirectory /\ syncItems[r].instruction = "REMOVE"}

\* the path of item k lies below the directory of item r
Below(k, r) == startsWith(syncItems[k].file, syncItems[r].file \o <<"/">>)

\* a leaf made for item k has been started: its job, or the first job of its
\* directory job
LeafStarted(k) ==
    \/ tree[k].kind = "leaf" /\ tree[k].state # "NotYetStarted"
    \/ tree[k].kind = "dir" /\ tree[k].first \in {"Running", "Taken"}

\* the items with instruction REMOVE below the directory of item r
RemovesBelow(r) ==
    {k \in 1..Len(syncItems) : Below(k, r) /\ syncItems[k].instruction = "REMOVE"}

DeferredDirectories == {r \in RemovedDirectories : ~SkippedByStart(r)}

\* the items met while the removal of r is pending and counted by it
AbsorbedBy(r) ==
    {k \in 1..Len(syncItems) :
        /\ PendingRemoval(syncItems, k) = r
        /\ SkippedByStart(k)
        /\ syncItems[k].instruction # "IGNORE"}

\* item k is placed outside the directory job of r although its path is
\* below r: it is moved out of r, or it is a deferred removal itself
PlacedOutside(k, r) ==
    \/ ~startsWith(destination(syncItems[k]), syncItems[r].file \o <<"/">>)
    \/ Defers(syncItems[k])

RemovedDirectoryWithUpload ==
    /\ started
    /\ Len(syncItems) = 3
    /\ syncItems[1].file = PD /\ syncItems[1].isDirectory /\ syncItems[1].instruction = "REMOVE"
    /\ syncItems[2].file = PDA /\ ~syncItems[2].isDirectory /\ syncItems[2].instruction = "NEW"
    /\ syncItems[2].direction = "Up"
    /\ syncItems[3].file = PDB /\ syncItems[3].instruction = "REMOVE"

\* C13: for the items dir/ (REMOVE), dir/a (NEW, Up), dir/b (REMOVE) the
\* only leaf that executes is the removal of dir/, the affected count of
\* that job is 2, and no upload job is created or started for dir/a
C13_OnlyTheRemovalExecutes ==
    RemovedDirectoryWithUpload =>
        /\ tree[1].affected = 2
        /\ tree[2].kind # "leaf"
        /\ \A k \in 2..3 : ~LeafStarted(k)

---------------------------------------------------------------------------
(* Claims about abort and errors *)

\* the items a leaf of which has been started
StartedLeaves == {n \in DOMAIN tree : LeafStarted(n)}

\* C14: once abort() has been called on the propagator no leaf goes from
\* NotYetStarted to Running, in any later scheduling pass
C14_NoLeafStartsAfterAbort ==
    [][abortRequested => StartedLeaves' \subseteq StartedLeaves]_vars

\* the last completion was observed with _abortRequested set and called with
\* NormalError or FatalError
CompletedWhileAborting ==
    completed.abort /\ completed.called \in {"NormalError", "FatalError"}

\* C15: _abortRequested is never reset once it is set, and every done(status)
\* of a leaf observed while it is set with status NormalError or FatalError
\* records and emits SoftError, or FileIgnored when the error is suppressed
C15_AbortLatchDowngradesErrors ==
    [][/\ abortRequested => abortRequested'
       /\ CompletedWhileAborting' =>
             \/ completed'.status = "SoftError"
             \/ completed'.status = "FileIgnored" /\ completed'.suppressed]_vars

\* a NormalError observed during an abort has been downgraded and then
\* suppressed, for an item that completed after another one
C15_Witness ==
    /\ CompletedWhileAborting
    /\ completed.called = "NormalError"
    /\ completed.status = "FileIgnored"
    /\ completed.item = 2
    /\ abortRequested

\* C16: whenever a job of the tree has finished with FatalError, a leaf or
\* a directory whose metadata row could not be written, abort() has been
\* called: _abortRequested is set
C16_FatalErrorAborts ==
    fatalEmitted => abortRequested

\* the status the composite of directory n emitted when it finalized
EmittedBySubJobs(n) ==
    IF tree[n].hasError = "NoStatus" THEN "Success" ELSE tree[n].hasError

\* C17: the status a composite emits when it finalizes is the most severe of
\* FatalError, NormalError and SoftError among the statuses its sub jobs
\* finished with, whatever their order, and Success if there is none
C17_CompositeEmitsMostSevere ==
    started =>
        \A n \in DOMAIN tree :
            tree[n].kind = "dir" /\ tree[n].sub = "Finished" =>
                EmittedBySubJobs(n) = IF tree[n].worst = "NoStatus" THEN "Success" ELSE tree[n].worst

---------------------------------------------------------------------------
(* Claims about the blacklist policy *)

\* a leaf has completed
LeafCompleted == completed.item # -1

\* the item of the last completion
CompletedItem == syncItems[completed.item]

\* the status the last completion is decided on: the status done was called
\* with, after the restoration mapping and the downgrade under abort
CompletedWith ==
    IF CompletedItem.isRestoration /\ completed.called \in {"Success", "Conflict"}
    THEN "Restoration"
    ELSE IF completed.abort /\ completed.called \in {"NormalError", "FatalError"}
    THEN "SoftError"
    ELSE completed.called

\* a leaf has completed with an error status
ErrorCompleted == LeafCompleted /\ CompletedWith \in {"SoftError", "NormalError", "FatalError"}

\* the entry recomputed from the old entry of the completed item
RecomputedEntry ==
    update(errorBlacklistEntry(completed.before, CompletedItem.file), completed.outcome)

\* the item was blacklisted and the recomputed entry still ignores it
StillBlacklisted ==
    /\ CompletedItem.hasBlacklistEntry
    /\ RecomputedEntry.valid
    /\ RecomputedEntry.ignoreDuration > 0

\* the last completion was reported as FileIgnored in place of its error
ReportedIgnored == completed.status = "FileIgnored" /\ completed.suppressed

\* C18 as stated: an error completion is reported as FileIgnored if and only
\* if the item had a blacklist entry and the recomputed entry is valid with
\* ignoreDuration > 0; otherwise the error status itself is reported
C18_IgnoredIffStillBlacklisted ==
    ErrorCompleted =>
        /\ ReportedIgnored <=> StillBlacklisted
        /\ ~StillBlacklisted => completed.status = CompletedWith

\* the blacklist takes part in the last completion: the error is a
\* NormalError or the item's errors may be blacklisted
BlacklistTakesPart == CompletedWith = "NormalError" \/ CompletedItem.errorMayBeBlacklisted

\* C18, amended: an error completion is reported as FileIgnored if and only
\* if the status is NormalError or the item has errorMayBeBlacklisted, the
\* item had a blacklist entry, and the recomputed entry is valid with
\* ignoreDuration > 0; in every other case the error status itself is reported
C18_IgnoredIffConsultedAndStillBlacklisted ==
    ErrorCompleted =>
        /\ ReportedIgnored <=> (BlacklistTakesPart /\ StillBlacklisted)
        /\ ~(BlacklistTakesPart /\ StillBlacklisted) => completed.status = CompletedWith

\* a NormalError of an item with a blacklist entry was reported as FileIgnored
C18_Witness ==
    /\ ErrorCompleted
    /\ CompletedWith = "NormalError"
    /\ ~CompletedItem.errorMayBeBlacklisted
    /\ StillBlacklisted
    /\ ReportedIgnored

\* the blacklist rows kept under a path
RowsFor(table, file) == {x \in table : x.path = file}

RecomputedBlacklist ==
    (completed.before \ RowsFor(completed.before, CompletedItem.file))
    \cup (IF RecomputedEntry.valid
          THEN {ErrorBlacklistRow(CompletedItem.file, RecomputedEntry)}
          ELSE {})

---------------------------------------------------------------------------
(* Claims about the restoration policy *)

\* the restore job of the leaf that completed last has finished
LeafRestored ==
    /\ LeafCompleted
    /\ tree[completed.item].restoreJob.finished # "none"

\* the status the restore job of that leaf finished with
RestoreFinishedWith == tree[completed.item].restoreJob.finished

\* the restore job succeeded
Restored == RestoreFinishedWith \in {"Success", "Conflict", "Restoration"}

\* the text m is part of the text s
Carries(s, m) == \E i \in 1..Len(s) : SubSeq(s, i, i + Len(m) - 1) = m

\* the message of a failed restoration
RestoringFailedMsg ==
    <<"A file or folder was removed from a read only share, but restoring failed: ">>
        \o RestoreJobMsg

RestoreReports == IF Restored THEN "SoftError" ELSE RestoreFinishedWith

SharedChecked == {n \in DOMAIN tree : tree[n].shared.called}

\* the call of job n is one the restoration policy handles
Handles(n) ==
    /\ tree[n].shared.code = 403
    /\ isInSharedDirectory(syncItems[n].file)
    /\ ~(~syncItems[n].isDirectory /\ syncItems[n].instruction \in {"NEW", "TYPE_CHANGE"})

\* C22: checkForProblemsWithShared returns true and starts a job exactly
\* when the code is 403, the path is in a shared directory and the item is
\* not a non-directory NEW or TYPE_CHANGE; the job's item is Down, with
\* CONFLICT for a non-directory SYNC, SYNC for any other non-directory and
\* NEW (a local mkdir) for a directory; otherwise it returns false and
\* starts nothing
C22_SharedProblemsAreCompensated ==
    \A n \in SharedChecked :
        /\ tree[n].shared.returned <=> Handles(n)
        /\ Handles(n) =>
              /\ tree[n].restoreJob.direction = "Down"
              /\ tree[n].restoreJob.instruction =
                    IF syncItems[n].isDirectory THEN "NEW"
                    ELSE IF syncItems[n].instruction = "SYNC" THEN "CONFLICT" ELSE "SYNC"
              /\ tree[n].restoreJob.class =
                    IF syncItems[n].isDirectory THEN "PropagateLocalMkdir"
                    ELSE "PropagateDownloadFile"
        /\ ~Handles(n) => tree[n].restoreJob = NoRestoreJob

\* a changed file below Shared/ got 403 and a conflict download was started
C22_Witness ==
    \E n \in SharedChecked :
        /\ tree[n].shared.returned
        /\ tree[n].shared.code = 403
        /\ syncItems[n].instruction = "SYNC"
        /\ syncItems[n].file = PSharedF
        /\ remoteFolder = WholeCloud
        /\ tree[n].restoreJob.instruction = "CONFLICT"
        /\ tree[n].restoreJob.finished = "none"

---------------------------------------------------------------------------
(* Claims about scheduling *)

\* the composite and directory jobs
Composites == {n \in DOMAIN tree : tree[n].kind = "dir"}

\* the job of item k is a leaf that runs, the jobs being t
LeafRuns(t, k) ==
    \/ t[k].kind = "leaf" /\ t[k].state = "Running"
    \/ t[k].kind = "dir" /\ t[k].first = "Running"

\* the leaves that had not started in t1 and run in t2
StartedBetween(t1, t2) == {k \in DOMAIN t1 : ~LeafRuns(t1, k) /\ LeafRuns(t2, k)}

\* job k is job n or lies below it
RECURSIVE Under(_, _)
Under(k, n) ==
    IF k = n THEN TRUE
    ELSE IF k = 0 THEN FALSE
    ELSE Under(tree[k].parent, n)

\* a call of scheduleSelfOrChild that gave r has started at most one leaf,
\* below n, and has returned true exactly if it started one
StartsOneIfTrue(n, r) ==
    LET s == StartedBetween(tree, r.tree)
    IN  /\ Cardinality(s) <= 1
        /\ r.ret <=> Cardinality(s) = 1
        /\ \A k \in s : Under(k, n)

\* C23: in every state, a call of scheduleSelfOrChild on any directory job,
\* and on the composite of its sub jobs once its first job is done, starts
\* at most one leaf in its subtree and returns true if and only if it
\* started one; when it returns false no leaf has gone from NotYetStarted
\* to Running
C23_ScheduleStartsAtMostOneLeaf ==
    \A n \in Composites :
        /\ StartsOneIfTrue(n, PropagateDirectory_scheduleSelfOrChild(tree, n, << >>))
        /\ tree[n].first \notin {"NotYetStarted", "Running"}
              => StartsOneIfTrue(n, PropagatorCompositeJob_scheduleSelfOrChild(tree, n, << >>))

\* a leaf runs, a call on a directory below the root would start one more
\* leaf and return true, and a call on another would start none and
\* return false
C23_Witness ==
    /\ activeJobList # << >>
    /\ \E n \in Composites \ {0} :
          LET r == PropagateDirectory_scheduleSelfOrChild(tree, n, << >>)
          IN  r.ret /\ Cardinality(StartedBetween(tree, r.tree)) = 1
    /\ \E n \in Composites :
          LET r == PropagateDirectory_scheduleSelfOrChild(tree, n, << >>)
          IN  ~r.ret /\ StartedBetween(tree, r.tree) = {} /\ tree[n].state = "Running"

\* the place of a job state on the way NotYetStarted -> Running -> Finished;
\* a first job that is Taken has finished and was deleted
Rank(state) ==
    CASE state = "NotYetStarted" -> 0
      [] state = "Running" -> 1
      [] state \in {"Finished", "Taken"} -> 2
      [] OTHER -> 0

\* no job of the tree goes back: not the job of an item, not the composite
\* of a directory's sub jobs, not a directory's first job
NoJobGoesBack ==
    \A n \in DOMAIN tree :
        n \in DOMAIN tree' =>
            /\ Rank(tree'[n].state) >= Rank(tree[n].state)
            /\ Rank(tree'[n].sub) >= Rank(tree[n].sub)
            /\ Rank(tree'[n].first) >= Rank(tree[n].first)

\* every job in a running list is Running
RunningListed ==
    \A n \in Composites : \A i \in 1..Len(tree[n].running) :
        tree[tree[n].running[i]].state = "Running"

\* C24: the state of every job only moves NotYetStarted -> Running ->
\* Finished, and every job in a composite's running list is Running
C24_JobStatesMoveOneWay == [][NoJobGoesBack]_vars /\ []RunningListed

\* a directory has finished while another job is in a running list, and a
\* first job has finished
C24_Witness ==
    /\ \E n \in Composites \ {0} : tree[n].state = "Finished" /\ tree[n].first = "Taken"
    /\ \E n \in Composites : tree[n].running # << >>
    /\ \E k \in DOMAIN tree : tree[k].kind = "leaf" /\ tree[k].state = "Finished"

\* C25: every directory job and every composite of sub jobs has emitted
\* finished at most once
C25_FinishedIsEmittedOnce ==
    \A n \in Composites : tree[n].emitted <= 1 /\ tree[n].subEmitted <= 1

\* a composite has finalized and emitted finished while another call of
\* finalize is still posted for it
C25_Witness ==
    \E n \in Composites :
        /\ tree[n].subEmitted = 1
        /\ tree[n].emitted = 1
        /\ tree[n].sub = "Finished"
        /\ finalizeQueue[n] > 0

\* a sub job in the running list of composite n does not report
\* FullParallelism
Blocked(n) ==
    \E i \in 1..Len(tree[n].running) :
        parallelism(tree, tree[n].running[i]) # "FullParallelism"

\* composite n takes no job and no task from its lists in this step
StartsNoSibling(n) ==
    /\ tree'[n].jobsToDo = tree[n].jobsToDo
    /\ tree'[n].tasksToDo = tree[n].tasksToDo
    /\ \A i \in 1..Len(tree'[n].running) :
          \E j \in 1..Len(tree[n].running) : tree[n].running[j] = tree'[n].running[i]

\* C26: while a running sub job of a composite reports a parallelism other
\* than FullParallelism, no step makes that composite take a further job or
\* task from its lists
C26_BlockingSubJobStopsSiblings ==
    [][\A n \in Composites : Blocked(n) => StartsNoSibling(n)]_vars

\* the same for the sub jobs that report WaitForFinished
C26_WaitForFinishedStopsSiblings ==
    [][\A n \in Composites :
          (\E i \in 1..Len(tree[n].running) :
              parallelism(tree, tree[n].running[i]) = "WaitForFinished")
          => StartsNoSibling(n)]_vars

---------------------------------------------------------------------------
(* The propagator on directories that replace a file *)

\* the destinations of the vectors with type changes, in the order of operator<
TypeChangePaths == <<PD, PDA, PDS, PDSX, PF>>

\* the item with direction Down
Down(item) == [item EXCEPT !.direction = "Down"]

\* the items there can be at a destination of TypeChangePaths
TypeChangeItemsFor(path) ==
    CASE path = PD   -> {Item(PD, "TYPE_CHANGE", TRUE, 0), Down(Item(PD, "TYPE_CHANGE", TRUE, 0)),
                         Item(PD, "NEW", TRUE, 0)}
      [] path = PDA  -> {Item(PDA, "NEW", FALSE, SmallSize)}
      [] path = PDS  -> {Item(PDS, "NEW", TRUE, 0), Item(PDS, "TYPE_CHANGE", TRUE, 0),
                         Item(PDS, "TYPE_CHANGE", FALSE, SmallSize)}
      [] path = PDSX -> {Item(PDSX, "NEW", FALSE, SmallSize)}
      [] path = PF   -> {Item(PF, "NEW", FALSE, SmallSize)}

\* the vectors over the destinations chosen by S, in the order of TypeChangePaths
TypeChangeVectorsOver(S) ==
    {v \in [1..Cardinality(S) -> UNION {TypeChangeItemsFor(TypeChangePaths[i]) : i \in S}] :
        \A k \in 1..Cardinality(S) : v[k].file = TypeChangePaths[Nth(S, k)]}

\* the sorted item vectors with type changes
TypeChangeVectors ==
    UNION {TypeChangeVectorsOver(S) :
              S \in {T \in SUBSET (1..Len(TypeChangePaths)) : Cardinality(T) <= MaxItems}}

NextTypeChange ==
    \/ \E its \in TypeChangeVectors, env \in MaxParallelValues : start(its, env)
    \/ scheduleNextJobImpl
    \/ \E n \in RunningLeaves, status \in RemovalStatuses : done(n, status, "NotBlacklisted", -1)
    \/ \E n \in DOMAIN finalizeQueue : finalize(n, -1)

SpecTypeChange == Init /\ [][NextTypeChange]_vars

---------------------------------------------------------------------------
(* The journal's transaction *)

\* checkConnect on a closed database that can be opened: startTransaction,
\* commitInternal("checkConnect"), which starts a new one, and
\* commitInternal("checkConnect End", false)
checkConnectTransaction(t, beginOk, commitOk) ==
    commitTransaction(
        startTransaction(commitTransaction(startTransaction(t, beginOk), commitOk), beginOk),
        commitOk)

\* SyncJournalDb::commitInternal: the counter after the call
commitInternal(t, startTrans, beginOk, commitOk) ==
    IF startTrans
    THEN startTransaction(commitTransaction(t, commitOk), beginOk)
    ELSE commitTransaction(t, commitOk)

\* a call that works on the transaction: ret is the counter before it, ok
\* whether the connection is open and answers the BEGIN and COMMIT of this
\* call with success, commit whether this call committed a transaction
TransactionCall(op, beginOk, commitOk) ==
    [Call(op, << >>, dbOpen /\ beginOk /\ commitOk) EXCEPT
        !.ret = transaction, !.commit = (transaction = 1 /\ dbOpen /\ commitOk)]

\* SyncJournalDb::isConnected
isConnected(openOk, beginOk, commitOk) ==
    /\ IF dbOpen
       THEN UNCHANGED <<dbOpen, transaction>>
       ELSE /\ dbOpen' = openOk
            /\ transaction' = IF openOk
                              THEN checkConnectTransaction(transaction, beginOk, commitOk)
                              ELSE transaction
    /\ last' = [Call("isConnected", << >>, checkConnect(openOk)) EXCEPT !.ret = transaction]
    /\ UNCHANGED <<metadata, filter, downloadinfo, blacklist>>
    /\ UNCHANGED <<propVars, threadVars, netVars, moreVars>>

\* SyncJournalDb::commit
commit(startTrans, beginOk, commitOk) ==
    /\ transaction' = commitInternal(transaction, startTrans, dbOpen /\ beginOk, dbOpen /\ commitOk)
    /\ last' = [TransactionCall("commit", beginOk, commitOk) EXCEPT !.flag = startTrans]
    /\ UNCHANGED <<dbOpen, metadata, filter, downloadinfo, blacklist>>
    /\ UNCHANGED <<propVars, threadVars, netVars, moreVars>>

\* SyncJournalDb::commitIfNeededAndStartNewTransaction
commitIfNeededAndStartNewTransaction(beginOk, commitOk) ==
    /\ transaction' = IF transaction = 1
                      THEN commitInternal(transaction, TRUE, dbOpen /\ beginOk, dbOpen /\ commitOk)
                      ELSE startTransaction(transaction, dbOpen /\ beginOk)
    /\ last' = TransactionCall("commitIfNeededAndStartNewTransaction", beginOk, commitOk)
    /\ UNCHANGED <<dbOpen, metadata, filter, downloadinfo, blacklist>>
    /\ UNCHANGED <<propVars, threadVars, netVars, moreVars>>

\* the entries the transaction specification stores
TransactionRecords ==
    {r \in BlacklistRecords : r.file \in {PA, PAB} /\ r.retryCount = 1 /\ r.ignoreDuration = 25}

NextTransaction ==
    \/ \E openOk \in BOOLEAN, beginOk \in BOOLEAN, commitOk \in BOOLEAN :
          isConnected(openOk, beginOk, commitOk)
    \/ \E startTrans \in BOOLEAN, beginOk \in BOOLEAN, commitOk \in BOOLEAN :
          commit(startTrans, beginOk, commitOk)
    \/ \E beginOk \in BOOLEAN, commitOk \in BOOLEAN :
          commitIfNeededAndStartNewTransaction(beginOk, commitOk)
    \/ \E item \in TransactionRecords, openOk \in BOOLEAN : updateBlacklistEntry(item, openOk)
    \/ \E p \in {PA, PAB}, openOk \in BOOLEAN : wipeBlacklistEntry(p, openOk)
    \/ \E openOk \in BOOLEAN, execOk \in BOOLEAN, commitOk \in BOOLEAN :
          wipeBlacklist(openOk, execOk, commitOk)
    \/ \E commitOk \in BOOLEAN : close(commitOk)

SpecTransaction == Init /\ [][NextTransaction]_vars

---------------------------------------------------------------------------
(* The journal called from several threads *)

\* the methods that construct their QMutexLocker before they use the connection
LockedMethods == {"wipeBlacklistEntry", "blacklistEntry", "close"}

\* the paths the threads call the journal with
ThreadPaths == {PA, PAB}

\* the entry a thread calls updateBlacklistEntry with for a path
ThreadRecord(file) ==
    CHOOSE r \in BlacklistRecords : r.file = file /\ r.retryCount = 1 /\ r.ignoreDuration = 25

\* thread t is inside checkConnect or executes a statement on _db
Touches(t) == pc[t].at \in {"checkConnect", "exec"}

\* another thread uses the connection while thread t does
Races(t) == \E u \in Threads \ {t} : Touches(u)

\* wipeBlacklistEntry, blacklistEntry, close: QMutexLocker locker(&_mutex) is
\* the first statement that can block; close goes on to commit and close,
\* the others to checkConnect
lockedCall(t, op, file) ==
    /\ pc[t] = Idle
    /\ op \in LockedMethods
    /\ mutex = 0
    /\ mutex' = t
    /\ pc' = [pc EXCEPT ![t] = [op |-> op, file |-> IF op = "close" THEN << >> ELSE file,
                                 at |-> IF op = "close" THEN "exec" ELSE "checkConnect"]]
    /\ UNCHANGED <<journalVars, propVars, netVars, moreVars>>

\* updateBlacklistEntry entered: checkConnect() is called before the
\* QMutexLocker is constructed
updateBlacklistEntry_enter(t, file) ==
    /\ pc[t] = Idle
    /\ pc' = [pc EXCEPT ![t] = [op |-> "updateBlacklistEntry", file |-> file,
                                 at |-> "checkConnect"]]
    /\ UNCHANGED <<journalVars, propVars, mutex, netVars, moreVars>>

\* checkConnect returns in thread t. connected is what it returns and leaves
\* in _db when another thread uses the connection at the same time
checkConnectReturns(t, openOk, connected) ==
    /\ pc[t].at = "checkConnect"
    /\ LET ok == IF Races(t) THEN connected ELSE checkConnect(openOk)
       IN  /\ dbOpen' = IF Races(t) THEN connected ELSE (dbOpen \/ ok)
           /\ IF ok
              THEN /\ pc' = [pc EXCEPT ![t].at =
                               IF pc[t].op = "updateBlacklistEntry" THEN "lock" ELSE "exec"]
                   /\ UNCHANGED <<mutex, last>>
              ELSE /\ pc' = [pc EXCEPT ![t] = Idle]
                   /\ mutex' = IF mutex = t THEN 0 ELSE mutex
                   /\ last' = Call(pc[t].op, pc[t].file, FALSE)
    /\ UNCHANGED <<transaction, metadata, filter, downloadinfo, blacklist>>
    /\ UNCHANGED <<propVars, netVars, moreVars>>

\* updateBlacklistEntry: QMutexLocker locker(&_mutex)
updateBlacklistEntry_lock(t) ==
    /\ pc[t].at = "lock"
    /\ mutex = 0
    /\ mutex' = t
    /\ pc' = [pc EXCEPT ![t].at = "exec"]
    /\ UNCHANGED <<journalVars, propVars, netVars, moreVars>>

\* the blacklist table after the statement of method op on file
StatementOn(table, op, file) ==
    CASE op = "updateBlacklistEntry" ->
             {x \in table : x.path # file} \cup {BlacklistRow(ThreadRecord(file))}
      [] op = "wipeBlacklistEntry" -> {x \in table : x.path # file}
      [] OTHER -> table

\* thread t executes the statement of its method and returns; the locker
\* releases the mutex. applied is whether the statement took effect when
\* another thread uses the connection at the same time
execReturns(t, applied, commitOk) ==
    /\ pc[t].at = "exec"
    /\ mutex = t
    /\ LET op == pc[t].op
           ok == IF Races(t) THEN applied ELSE dbOpen
       IN  IF op = "close"
           THEN /\ transaction' = commitTransaction(transaction, dbOpen /\ commitOk)
                /\ dbOpen' = FALSE
                /\ filter' = {}
                /\ last' = Call("close", << >>, TRUE)
                /\ UNCHANGED blacklist
           ELSE /\ blacklist' = IF ok THEN StatementOn(blacklist, op, pc[t].file) ELSE blacklist
                /\ last' = Call(op, pc[t].file, ok)
                /\ UNCHANGED <<dbOpen, transaction, filter>>
    /\ mutex' = 0
    /\ pc' = [pc EXCEPT ![t] = Idle]
    /\ UNCHANGED <<metadata, downloadinfo>>
    /\ UNCHANGED <<propVars, netVars, moreVars>>

NextThreads ==
    \/ \E t \in Threads, op \in LockedMethods, file \in ThreadPaths : lockedCall(t, op, file)
    \/ \E t \in Threads, file \in ThreadPaths : updateBlacklistEntry_enter(t, file)
    \/ \E t \in Threads, openOk \in BOOLEAN, connected \in BOOLEAN :
          checkConnectReturns(t, openOk, connected)
    \/ \E t \in Threads : updateBlacklistEntry_lock(t)
    \/ \E t \in Threads, applied \in BOOLEAN, commitOk \in BOOLEAN :
          execReturns(t, applied, commitOk)

SpecThreads == Init /\ [][NextThreads]_vars

---------------------------------------------------------------------------
(* Claims about the journal's mutex *)

\* C27: no two threads are inside checkConnect or use the SQL connection at
\* the same time, whatever journal methods they call (updateBlacklistEntry
\* included)
C27_OneThreadUsesTheConnection ==
    \A t \in Threads, u \in Threads : (t # u /\ Touches(t)) => ~Touches(u)

\* the same for the threads that hold the mutex, and every thread that
\* executes a statement holds it
C27_StatementsHoldTheMutex ==
    \A t \in Threads : pc[t].at = "exec" => mutex = t

---------------------------------------------------------------------------
(* Claims about the journal's transaction *)

\* the last call was commitIfNeededAndStartNewTransaction on a connection
\* that is open and answers its BEGIN and COMMIT with success
CommittedIfNeeded ==
    /\ last.op = "commitIfNeededAndStartNewTransaction"
    /\ last.ok

\* C28: the transaction counter is 0 or 1 in every reachable state, and after
\* commitIfNeededAndStartNewTransaction on a working connection it is 1: a
\* transaction that was active has been committed by the call
C28_OneTransactionAtMost ==
    /\ transaction \in {0, 1}
    /\ CommittedIfNeeded => /\ transaction = 1
                            /\ last.ret = 1 => last.commit
                            /\ last.ret = 0 => ~last.commit

C28_Witness ==
    /\ CommittedIfNeeded
    /\ last.ret = 1
    /\ last.commit
    /\ transaction = 1

---------------------------------------------------------------------------
(* Claims about fatal SQL errors *)

\* the last call ended in sqlFail
SqlFailed == last.op = "wipeBlacklist" /\ last.flag

\* the calls that reach the database through checkConnect
UsesConnection(op) ==
    op \in {"isConnected", "updateBlacklistEntry", "wipeBlacklistEntry", "wipeBlacklist"}

\* C29: after sqlFail the transaction has been committed and the connection
\* is closed, and the journal operation issued next fails
C29_OperationsFailAfterSqlFail ==
    /\ [](SqlFailed => ~dbOpen /\ transaction = 0)
    /\ [][(SqlFailed /\ UsesConnection(last'.op)) => ~last'.ok]_vars

\* C29 (amended): a call that ends in sqlFail leaves the connection closed and
\* the counter at 0 when it committed a transaction, unchanged otherwise; the
\* operation issued next succeeds only with the database opened again
C29_SqlFailClosesUntilReopened ==
    /\ [][(last'.op = "wipeBlacklist" /\ last'.flag) =>
              /\ ~dbOpen'
              /\ transaction' = IF last'.commit THEN 0 ELSE transaction]_vars
    /\ [][(SqlFailed /\ UsesConnection(last'.op)) => (last'.ok => dbOpen')]_vars
    /\ [](SqlFailed => ~dbOpen)

C29_Witness ==
    /\ SqlFailed
    /\ last.commit
    /\ transaction = 0
    /\ ~dbOpen
    /\ blacklist # {}

---------------------------------------------------------------------------
(* The check of the server's status.php *)

\* largest number of CheckServerJob objects the model constructs
MaxJobs == 2

\* MAX_REDIRECTS of networkjobs.h
MAX_REDIRECTS == 2

\* QUrl(): the RedirectionTargetAttribute of a reply that is no redirect
EmptyUrl == [scheme |-> "", host |-> ""]

\* the URLs of status.php the jobs request and the servers redirect to
Urls ==
    {[scheme |-> "http", host |-> "a"], [scheme |-> "https", host |-> "a"],
     [scheme |-> "https", host |-> "b"]}

\* what a finished reply holds: its error, whether its body is empty, its
\* redirection target and whether its body is JSON with installed, version
\* and versionstring
Replies ==
    [error : BOOLEAN, empty : BOOLEAN, redirectUrl : Urls \cup {EmptyUrl}, status : BOOLEAN]

\* a reply that has not finished
NoReply == [error |-> FALSE, empty |-> FALSE, redirectUrl |-> EmptyUrl, status |-> FALSE]

\* CheckServerJob::CheckServerJob: the request for status.php is sent and
\* the reply connected to slotFinished
CheckServerJob(url, followRedirect) ==
    /\ Len(checkServerJobs) < MaxJobs
    /\ checkServerJobs' = Append(checkServerJobs,
          [requestedUrl |-> url, followRedirects |-> followRedirect, redirectCount |-> 0,
           reply |-> TRUE, connected |-> TRUE, requests |-> 1, deleteLater |-> FALSE,
           instanceFound |-> FALSE, networkError |-> FALSE, finished |-> NoReply])
    /\ UNCHANGED <<journalVars, propVars, threadVars, moreVars>>

\* AbstractNetworkJob::slotError: the reply signalled an error before it
\* finishes
slotError(j) ==
    /\ j \in DOMAIN checkServerJobs
    /\ checkServerJobs[j].connected
    /\ ~checkServerJobs[j].networkError
    /\ checkServerJobs' = [checkServerJobs EXCEPT ![j].networkError = TRUE,
                                                  ![j].deleteLater = TRUE]
    /\ UNCHANGED <<journalVars, propVars, threadVars, moreVars>>

\* slotFinished that takes the follow branch for every reply
slotFinishedJob_FollowsAll(job, r) ==
    [job EXCEPT !.finished = r, !.connected = FALSE, !.reply = FALSE,
                !.redirectCount = job.redirectCount + 1]

\* the job after slotFinished on reply r
slotFinishedJob(job, r) ==
    LET seen == [job EXCEPT !.finished = r, !.connected = FALSE]
        count == job.redirectCount + 1
    IN  IF ~r.error /\ r.empty
        THEN [seen EXCEPT !.deleteLater = TRUE]
        ELSE IF /\ r.redirectUrl # EmptyUrl
                /\ ~(job.requestedUrl.scheme = "https" /\ r.redirectUrl.scheme = "http")
                /\ ~(job.requestedUrl = r.redirectUrl \/ count >= MAX_REDIRECTS)
             THEN \* takeReply()->deleteLater(); no request replaces the reply
                  [seen EXCEPT !.redirectCount = count, !.reply = FALSE]
             ELSE [seen EXCEPT
                      !.redirectCount = IF r.redirectUrl # EmptyUrl THEN count ELSE @,
                      !.instanceFound = r.status,
                      !.deleteLater = TRUE]

\* CheckServerJob::slotFinished
slotFinished(j, r) ==
    /\ j \in DOMAIN checkServerJobs
    /\ checkServerJobs[j].connected
    /\ checkServerJobs[j].networkError => r.error
    /\ r.error => checkServerJobs[j].networkError
    /\ r.status => ~r.empty
    /\ checkServerJobs' = [checkServerJobs EXCEPT ![j] = slotFinishedJob(@, r)]
    /\ UNCHANGED <<journalVars, propVars, threadVars, moreVars>>

NextCheckServer ==
    \/ \E url \in Urls, followRedirect \in BOOLEAN : CheckServerJob(url, followRedirect)
    \/ \E j \in 1..MaxJobs : slotError(j)
    \/ \E j \in 1..MaxJobs, r \in Replies : slotFinished(j, r)

SpecCheckServer == Init /\ [][NextCheckServer]_vars

---------------------------------------------------------------------------
(* Claims about the redirects of CheckServerJob *)

\* the reply job j finished with redirects from HTTPS to HTTP
Downgrade(j) ==
    /\ checkServerJobs[j].requestedUrl.scheme = "https"
    /\ checkServerJobs[j].finished.redirectUrl.scheme = "http"

\* the reply job j finished with redirects to the URL that was requested
SelfRedirect(j) == checkServerJobs[j].finished.redirectUrl = checkServerJobs[j].requestedUrl

\* C30: a CheckServerJob sends at most MAX_REDIRECTS requests after its
\* first; a reply that redirects from HTTPS to HTTP or to the requested URL is
\* answered by no further request; after such a reply, and after the
\* redirect that brings the count to MAX_REDIRECTS, the job has scheduled its
\* deletion
C30_RedirectsAreBoundedAndRefusalsEnd ==
    \A j \in DOMAIN checkServerJobs :
        /\ checkServerJobs[j].requests - 1 <= MAX_REDIRECTS
        /\ (Downgrade(j) \/ SelfRedirect(j)) =>
              /\ checkServerJobs[j].requests = 1
              /\ checkServerJobs[j].deleteLater
        /\ (checkServerJobs[j].finished.redirectUrl # EmptyUrl
              /\ checkServerJobs[j].redirectCount >= MAX_REDIRECTS) =>
              checkServerJobs[j].deleteLater

C30_Witness ==
    \E j \in DOMAIN checkServerJobs, k \in DOMAIN checkServerJobs :
        /\ Downgrade(j)
        /\ ~checkServerJobs[j].finished.empty
        /\ checkServerJobs[j].redirectCount = 1
        /\ checkServerJobs[j].deleteLater
        /\ SelfRedirect(k)
        /\ ~checkServerJobs[k].finished.empty
        /\ checkServerJobs[k].deleteLater

---------------------------------------------------------------------------
(* Claims about a directory whose first job fails *)

\* the first job of directory n has finished with a status other than
\* Success and Restoration
FirstJobFailed(n) == firstStatus[n] \notin {"none", "Success", "Restoration"}

\* C31: a directory whose first job has finished with a status other than
\* Success and Restoration is Finished and has emitted that status, once; its
\* composite, and every job and task it holds, at any depth, is still
\* NotYetStarted, and its metadata row has not been written
C31_FailedFirstJobEndsTheDirectory ==
    \A n \in DirectoriesWithFirstJob :
        FirstJobFailed(n) =>
            /\ tree[n].state = "Finished"
            /\ tree[n].emitted = 1
            /\ tree[n].emittedWith = firstStatus[n]
            /\ tree[n].sub = "NotYetStarted"
            /\ \A x \in Descendants(n) : ~HasLeftNotYetStarted(x)
            /\ n \notin metaWritten

\* C31 witness: the first job of a directory that holds a task has failed,
\* and every other job of the run has come to its end
C31_Witness ==
    \E n \in DirectoriesWithFirstJob :
        /\ FirstJobFailed(n)
        /\ firstStatus[n] = "NormalError"
        /\ \E x \in Descendants(n) : tree[x].kind = "task"
        /\ rootFinished # "none"

---------------------------------------------------------------------------
(* Claims about the order of renames and deferred removals *)

\* the items whose job start appends to the root after the walk
DeferredRemovals ==
    {r \in 1..Len(syncItems) : Defers(syncItems[r]) /\ ~SkippedByStart(r)}

\* the items that are moved out of the directory of item r and have a job
RenamesFrom(r) ==
    {k \in 1..Len(syncItems) :
        /\ syncItems[k].instruction = "RENAME"
        /\ Below(k, r)
        /\ ~SkippedByStart(k)}

\* C32: a deferred removal job is not started before every rename job whose
\* source lies inside the removed directory has finished
C32_RemovalStartsAfterRenames ==
    started =>
        \A r \in DeferredRemovals : \A k \in RenamesFrom(r) :
            LeafStarted(r) => HasFinished(k)

---------------------------------------------------------------------------
(* Claims about directories that replace a file *)

\* the directory items with instruction TYPE_CHANGE and direction Up the
\* walk places
FlippedDirectories ==
    {k \in 1..Len(syncItems) :
        /\ syncItems[k].isDirectory
        /\ syncItems[k].instruction = "TYPE_CHANGE"
        /\ syncItems[k].direction = "Up"
        /\ ~SkippedByStart(k)}

\* the items whose destination lies below the destination of item k
DestinationsBelow(k) ==
    {j \in 1..Len(syncItems) :
        startsWith(destination(syncItems[j]), destination(syncItems[k]) \o <<"/">>)}

\* every item below the directory of item k has instruction NONE and no leaf
\* of it has started
SkippedBelow(k) ==
    \A j \in DestinationsBelow(k) :
        /\ syncItems[j].instruction = "NONE"
        /\ ~LeafStarted(j)

\* C33: when the walk has met a TYPE_CHANGE directory with direction Up,
\* every item below it has instruction NONE, no leaf of such an item is ever
\* started, and anotherSyncNeeded is set
C33_TypeChangeUpSkipsAndAsksForSync ==
    started => \A k \in FlippedDirectories : SkippedBelow(k) /\ anotherSyncNeeded

\* C33 (amended): the same, with anotherSyncNeeded set when there is an item
\* below the directory
C33_TypeChangeUpSkipsAndAsksForSyncIfAny ==
    started =>
        \A k \in FlippedDirectories :
            /\ SkippedBelow(k)
            /\ DestinationsBelow(k) # {} => anotherSyncNeeded

\* C33 witness: the run has ended, the directory below the flipped directory
\* has a job without first job and the file in it was dropped as a useless
\* task
C33_Witness ==
    /\ started
    /\ rootFinished # "none"
    /\ \E k \in FlippedDirectories :
          \E i \in DestinationsBelow(k), j \in DestinationsBelow(k) :
              /\ tree[i].kind = "dir" /\ tree[i].first = "Absent" /\ tree[i].state = "Finished"
              /\ ~syncItems[j].isDirectory
              /\ anotherSyncNeeded

---------------------------------------------------------------------------
(* The check of the free disk space *)

\* largest number of running jobs of the root job the check is made with
MaxRunningJobs == 2

\* the defaults of criticalFreeSpaceLimit and freeSpaceLimit, in bytes
DefaultCriticalFreeSpace == 50000000
DefaultFreeSpace == 250000000

\* what OWNCLOUD_CRITICAL_FREE_SPACE_BYTES and OWNCLOUD_FREE_SPACE_BYTES hold
EnvValues ==
    {NoEnv} \cup {[has |-> TRUE, value |-> v] : v \in {-1, 100000000, 300000000}}

\* what Utility::freeDiskSpace returns: -1 when it cannot tell
FreeBytes == {-1, 0, 49999999, 50000000, 249999999, 250000000, 400000000}

\* what committedDiskSpace of a running job returns
CommittedBytes == {60000000, 200000000}

\* the committedDiskSpace of the jobs in _runningJobs of the root job
RunningCommitted == UNION {[1..n -> CommittedBytes] : n \in 0..MaxRunningJobs}

\* qBound(min, val, max)
qBound(min, val, max) ==
    LET low == IF max < val THEN max ELSE val
    IN  IF min > low THEN min ELSE low

\* freeSpaceLimit with OWNCLOUD_FREE_SPACE_BYTES as read
freeSpaceLimit(env) == IF env.has THEN env.value ELSE DefaultFreeSpace

\* criticalFreeSpaceLimit with the two variables as read
criticalFreeSpaceLimit(envCritical, envFree) ==
    qBound(0, IF envCritical.has THEN envCritical.value ELSE DefaultCriticalFreeSpace,
           freeSpaceLimit(envFree))

\* committedDiskSpace that asks the first running job only
committedDiskSpace_First(running) == IF running = << >> THEN 0 ELSE running[1]

\* PropagatorCompositeJob::committedDiskSpace
RECURSIVE committedDiskSpace(_)
committedDiskSpace(running) ==
    IF running = << >> THEN 0 ELSE Head(running) + committedDiskSpace(Tail(running))

\* what diskSpaceCheck returns
DiskSpaceResult(free, running, envCritical, envFree) ==
    IF free < 0 THEN "DiskSpaceOk"
    ELSE IF free < criticalFreeSpaceLimit(envCritical, envFree) THEN "DiskSpaceCritical"
    ELSE IF free - committedDiskSpace(running) < freeSpaceLimit(envFree) THEN "DiskSpaceFailure"
    ELSE "DiskSpaceOk"

\* OwncloudPropagator::diskSpaceCheck; the two limits read the environment
\* when they are called for the first time
diskSpaceCheck(free, running, envCritical, envFree) ==
    LET reads == ~diskSpace.read /\ free >= 0
        ec    == IF reads THEN envCritical ELSE diskSpace.envCritical
        ef    == IF reads THEN envFree ELSE diskSpace.envFree
    IN  /\ diskSpace' = [called |-> TRUE, free |-> free, committed |-> running,
                         result |-> DiskSpaceResult(free, running, ec, ef),
                         read |-> diskSpace.read \/ reads, envFree |-> ef, envCritical |-> ec]
        /\ UNCHANGED <<journalVars, propVars, threadVars, netVars, pollinfo>>

NextDiskSpace ==
    \E free \in FreeBytes, running \in RunningCommitted, envCritical \in EnvValues,
       envFree \in EnvValues : diskSpaceCheck(free, running, envCritical, envFree)

SpecDiskSpace == Init /\ [][NextDiskSpace]_vars

---------------------------------------------------------------------------
(* Claims about the free disk space *)

\* the limits the last check compared with
CriticalLimit == criticalFreeSpaceLimit(diskSpace.envCritical, diskSpace.envFree)
SoftLimit == freeSpaceLimit(diskSpace.envFree)

\* the bytes the first n running jobs of the last check committed
RECURSIVE CommittedByFirst(_)
CommittedByFirst(n) ==
    IF n = 0 THEN 0 ELSE CommittedByFirst(n - 1) + diskSpace.committed[n]

\* the free bytes of the last check less the bytes its running jobs committed
Available == diskSpace.free - CommittedByFirst(Len(diskSpace.committed))

\* C34: diskSpaceCheck returns DiskSpaceCritical when the free bytes less the
\* committed bytes are below the critical limit, DiskSpaceFailure when they
\* are below the soft limit but not the critical one and DiskSpaceOk
\* otherwise, and the critical limit is not above the soft limit
C34_DiskSpaceResultOfAvailable ==
    (diskSpace.called /\ diskSpace.read) =>
        /\ CriticalLimit <= SoftLimit
        /\ diskSpace.result =
              IF Available < CriticalLimit THEN "DiskSpaceCritical"
              ELSE IF Available < SoftLimit THEN "DiskSpaceFailure"
              ELSE "DiskSpaceOk"

\* C34 (amended): diskSpaceCheck returns DiskSpaceOk when the free bytes are
\* negative; otherwise DiskSpaceCritical when the free bytes are below the
\* critical limit, DiskSpaceFailure when they are not but the free bytes less
\* the committed bytes are below the soft limit, and DiskSpaceOk otherwise;
\* the critical limit is not above the soft limit unless that is negative
C34_DiskSpaceResultOfFreeAndAvailable ==
    diskSpace.called =>
        /\ diskSpace.free < 0 => diskSpace.result = "DiskSpaceOk"
        /\ (diskSpace.free >= 0) =>
              /\ diskSpace.read
              /\ SoftLimit >= 0 => CriticalLimit <= SoftLimit
              /\ SoftLimit < 0 => CriticalLimit = 0
              /\ diskSpace.result =
                    IF diskSpace.free < CriticalLimit THEN "DiskSpaceCritical"
                    ELSE IF Available < SoftLimit THEN "DiskSpaceFailure"
                    ELSE "DiskSpaceOk"

\* C34 witness: with the default limits, two running jobs have committed
\* what brings free bytes above the soft limit below it
C34_Witness ==
    /\ diskSpace.called
    /\ ~diskSpace.envFree.has /\ ~diskSpace.envCritical.has
    /\ Len(diskSpace.committed) = 2
    /\ diskSpace.free >= SoftLimit
    /\ Available < SoftLimit
    /\ diskSpace.free - diskSpace.committed[1] >= SoftLimit
    /\ diskSpace.result = "DiskSpaceFailure"

---------------------------------------------------------------------------
(* avoidRenamesOnNextSync called from several threads *)

\* the records the other callers of the journal write meanwhile
AvoidRecords == {FileRecordOf(p, v) : p \in ThreadPaths, v \in 1..2}

\* thread t is inside avoidRenamesOnNextSync
InAvoidRenames(t) == pc[t].op = "avoidRenamesOnNextSync"

\* avoidRenamesOnNextSync: QMutexLocker locker(&_mutex)
avoidRenamesOnNextSync_lock(t, path) ==
    /\ pc[t] = Idle
    /\ mutex = 0
    /\ mutex' = t
    /\ pc' = [pc EXCEPT ![t] = [op |-> "avoidRenamesOnNextSync", file |-> path,
                                 at |-> "checkConnect"]]
    /\ UNCHANGED <<journalVars, propVars, netVars, moreVars>>

\* avoidRenamesOnNextSync: if( !checkConnect() ) return, which releases the mutex
avoidRenamesOnNextSync_checkConnect(t, openOk) ==
    /\ InAvoidRenames(t)
    /\ pc[t].at = "checkConnect"
    /\ IF checkConnect(openOk)
       THEN /\ dbOpen' = TRUE
            /\ pc' = [pc EXCEPT ![t].at = "exec"]
            /\ UNCHANGED <<mutex, last>>
       ELSE /\ pc' = [pc EXCEPT ![t] = Idle]
            /\ mutex' = 0
            /\ last' = Call("avoidRenamesOnNextSync", pc[t].file, FALSE)
            /\ UNCHANGED dbOpen
    /\ UNCHANGED <<transaction, metadata, filter, downloadinfo, blacklist>>
    /\ UNCHANGED <<propVars, netVars, moreVars>>

\* the UPDATE of avoidRenamesOnNextSync that goes on to
\* avoidReadFromDbOnNextSync with the mutex still held
avoidRenamesOnNextSync_exec_Locked(t, execOk) ==
    /\ InAvoidRenames(t)
    /\ pc[t].at = "exec"
    /\ metadata' = IF execOk THEN ClearRenameKeys(metadata, pc[t].file) ELSE metadata
    /\ last' = Call("avoidRenamesOnNextSync", pc[t].file, execOk)
    /\ pc' = [pc EXCEPT ![t].at = "lock"]
    /\ UNCHANGED <<dbOpen, transaction, filter, downloadinfo, blacklist, mutex>>
    /\ UNCHANGED <<propVars, netVars, moreVars>>

\* avoidRenamesOnNextSync: the UPDATE, whose failure is only logged, and
\* locker.unlock()
avoidRenamesOnNextSync_exec(t, execOk) ==
    /\ InAvoidRenames(t)
    /\ pc[t].at = "exec"
    /\ metadata' = IF execOk THEN ClearRenameKeys(metadata, pc[t].file) ELSE metadata
    /\ last' = Call("avoidRenamesOnNextSync", pc[t].file, execOk)
    /\ mutex' = 0
    /\ pc' = [pc EXCEPT ![t].at = "lock"]
    /\ UNCHANGED <<dbOpen, transaction, filter, downloadinfo, blacklist>>
    /\ UNCHANGED <<propVars, netVars, moreVars>>

\* avoidReadFromDbOnNextSync called by avoidRenamesOnNextSync:
\* QMutexLocker locker(&_mutex)
avoidReadFromDbOnNextSync_lock(t) ==
    /\ InAvoidRenames(t)
    /\ pc[t].at = "lock"
    /\ mutex = 0
    /\ mutex' = t
    /\ pc' = [pc EXCEPT ![t].at = "checkConnect2"]
    /\ UNCHANGED <<journalVars, propVars, netVars, moreVars>>

\* avoidReadFromDbOnNextSync: if( !checkConnect() ) return; both functions
\* return and the mutex is released
avoidReadFromDbOnNextSync_checkConnect(t, openOk) ==
    /\ InAvoidRenames(t)
    /\ pc[t].at = "checkConnect2"
    /\ IF checkConnect(openOk)
       THEN /\ dbOpen' = TRUE
            /\ pc' = [pc EXCEPT ![t].at = "exec2"]
            /\ UNCHANGED <<mutex, last>>
       ELSE /\ pc' = [pc EXCEPT ![t] = Idle]
            /\ mutex' = 0
            /\ last' = Call("avoidReadFromDbOnNextSync", pc[t].file, FALSE)
            /\ UNCHANGED dbOpen
    /\ UNCHANGED <<transaction, metadata, filter, downloadinfo, blacklist>>
    /\ UNCHANGED <<propVars, netVars, moreVars>>

\* avoidReadFromDbOnNextSync: the UPDATE, whose failure is only logged, the
\* append to the filter, and the return of both functions
avoidReadFromDbOnNextSync_exec(t, execOk) ==
    /\ InAvoidRenames(t)
    /\ pc[t].at = "exec2"
    /\ metadata' = IF execOk THEN InvalidateParents(metadata, pc[t].file) ELSE metadata
    /\ filter' = filter \cup {pc[t].file}
    /\ last' = Call("avoidReadFromDbOnNextSync", pc[t].file, TRUE)
    /\ mutex' = 0
    /\ pc' = [pc EXCEPT ![t] = Idle]
    /\ UNCHANGED <<dbOpen, transaction, downloadinfo, blacklist>>
    /\ UNCHANGED <<propVars, netVars, moreVars>>

\* setFileRecord and close construct their QMutexLocker first and hold it
\* until they return: they run when no thread holds the mutex
NextAvoidRenames ==
    \/ \E t \in Threads, path \in ThreadPaths : avoidRenamesOnNextSync_lock(t, path)
    \/ \E t \in Threads, openOk \in BOOLEAN : avoidRenamesOnNextSync_checkConnect(t, openOk)
    \/ \E t \in Threads, execOk \in BOOLEAN : avoidRenamesOnNextSync_exec(t, execOk)
    \/ \E t \in Threads : avoidReadFromDbOnNextSync_lock(t)
    \/ \E t \in Threads, openOk \in BOOLEAN : avoidReadFromDbOnNextSync_checkConnect(t, openOk)
    \/ \E t \in Threads, execOk \in BOOLEAN : avoidReadFromDbOnNextSync_exec(t, execOk)
    \/ \E t \in Threads, r \in AvoidRecords, openOk \in BOOLEAN :
          pc[t] = Idle /\ mutex = 0 /\ setFileRecord(r, openOk, TRUE)
    \/ \E t \in Threads, commitOk \in BOOLEAN :
          pc[t] = Idle /\ mutex = 0 /\ close(commitOk)

SpecAvoidRenames == Init /\ [][NextAvoidRenames]_vars

---------------------------------------------------------------------------
(* Claims about avoidRenamesOnNextSync and the mutex *)

\* a thread that is about to lock the mutex does not hold it, and a thread
\* past its QMutexLocker does
NoSelfRequest ==
    \A t \in Threads :
        InAvoidRenames(t) => IF pc[t].at = "lock" THEN mutex # t ELSE mutex = t

\* fileid and inode are cleared in table for path and the rows below it
RenameKeysCleared(table, path) ==
    \A x \in table :
        (x.path = path \/ startsWith(x.path, path \o <<"/">>)) =>
            (x.fileid = "" /\ x.inode = I64(0, 0))

\* thread t returns from avoidRenamesOnNextSync in this step
AvoidRenamesReturns(t) == InAvoidRenames(t) /\ pc'[t] = Idle

---------------------------------------------------------------------------
(* The propagator under an event loop that runs every posted call *)

\* a started leaf calls done
LeafFinishes ==
    \E n \in RunningLeaves, status \in RemovalStatuses : done(n, status, "NotBlacklisted", -1)

\* a posted call of finalize runs
FinalizeRuns == \E n \in DOMAIN finalizeQueue : finalize(n, -1)

NextTermination ==
    \/ \E its \in ItemVectors, env \in MaxParallelValues : start(its, env)
    \/ scheduleNextJobImpl
    \/ LeafFinishes
    \/ FinalizeRuns

\* every started leaf finishes, and the event loop runs every posted
\* scheduleNextJobImpl and finalize: weak fairness of the three actions,
\* each written with the condition under which it can take a step
SpecTermination ==
    /\ Init /\ [][NextTermination]_vars
    /\ ([]<>(scheduled = 0)) \/ []<><<scheduleNextJobImpl>>_vars
    /\ ([]<>(RunningLeaves = {})) \/ []<><<LeafFinishes>>_vars
    /\ ([]<>(\A n \in DOMAIN finalizeQueue : finalizeQueue[n] = 0)) \/ []<><<FinalizeRuns>>_vars

---------------------------------------------------------------------------
(* Claims about the termination of a sync run *)

\* no posted call of scheduleNextJobImpl or finalize is waiting
NothingPosted ==
    /\ scheduled = 0
    /\ \A n \in DOMAIN finalizeQueue : finalizeQueue[n] = 0

\* the root job has not emitted finished, no leaf runs and nothing is posted
Stuck == started /\ rootFinished = "none" /\ RunningLeaves = {} /\ NothingPosted

\* a composite holds jobs or tasks that have not been started
UnstartedLeft ==
    \E n \in DOMAIN tree :
        tree[n].kind = "dir" /\ (Len(tree[n].jobsToDo) > 0 \/ Len(tree[n].tasksToDo) > 0)

\* C36: once started, the root job eventually emits finished when every
\* started leaf finishes and every posted call runs, and no state has jobs
\* or tasks left unstarted, no running leaf and no posted call
C36_NothingLeftWithoutEvents ==
    /\ started ~> (rootFinished # "none")
    /\ []~(started /\ UnstartedLeft /\ RunningLeaves = {} /\ NothingPosted)

\* C36 (amended): once started, the root job eventually emits finished when
\* every started leaf finishes and every posted call runs, and before it has
\* emitted there is no state with no running leaf and no posted call
C36_RootJobFinishes ==
    /\ started ~> (rootFinished # "none")
    /\ []~Stuck

\* C36 witness: the root job has emitted finished for a vector with a
\* directory whose only item creates no job, nothing being left to run
C36_Witness ==
    /\ rootFinished # "none"
    /\ RunningLeaves = {} /\ NothingPosted
    /\ \E n \in DOMAIN tree :
          /\ n # 0 /\ tree[n].kind = "dir"
          /\ syncItems[n].instruction = "IGNORE"
          /\ \A k \in DOMAIN tree : (k # 0 /\ k # n) => tree[k].parent = n /\ tree[k].kind = "dir"
    /\ Len(syncItems) >= 2

---------------------------------------------------------------------------
(* Claims about the rows deleteFileRecord leaves alone *)

\* the rows of table other than the one of path p and, when recursively is
\* set, the ones whose path starts with p + "/"
RowsOutside(table, p, recursively) ==
    {x \in table : ~(x.path = p \/ (recursively /\ startsWith(x.path, p \o <<"/">>)))}

\* C37: a successful deleteFileRecord(p, recursively) removes the row of p
\* and, when recursively is set, the rows whose path starts with p + "/", and
\* leaves every other row as it was, for every p, '_' and '%' included
C37_DeleteLeavesOtherRows ==
    [][(last'.op = "deleteFileRecord" /\ last'.ok)
          => metadata' = RowsOutside(metadata, last'.path, last'.flag)]_vars

---------------------------------------------------------------------------
(* The poll table *)

\* largest number of rows of table poll
MaxPollRows == 3

\* the PollInfo values setPollInfo is called with; an empty url asks for removal
PollInfos ==
    [file : {PA, PAB}, modtime : {7, 12}, url : {<< >>, <<"u">>, <<"v">>}]

\* the position of the first parameter for SqlQuery::bindValue, which is
\* defined outside this file: 1 as in sqlite3_bind, or 0 as in QSqlQuery
FirstPositions == {0, 1}

\* a column value: SQL NULL or a text
NullValue == [null |-> TRUE, text |-> << >>]
TextValue(s) == [null |-> FALSE, text |-> s]

DecimalDigits == <<"0", "1", "2", "3", "4", "5", "6", "7", "8", "9">>

\* QString::number of a non-negative number
RECURSIVE QString_number(_)
QString_number(n) ==
    IF n < 10 THEN <<DecimalDigits[n + 1]>>
    ELSE QString_number(n \div 10) \o <<DecimalDigits[(n % 10) + 1]>>

\* the value of a decimal digit, -1 for any other character
DigitValue(c) ==
    IF \E d \in 1..10 : DecimalDigits[d] = c
    THEN (CHOOSE d \in 1..10 : DecimalDigits[d] = c) - 1
    ELSE -1

\* the number the leading digits of a text stand for, acc being the number
\* read so far
RECURSIVE LeadingNumber(_, _)
LeadingNumber(text, acc) ==
    IF text = << >> \/ DigitValue(Head(text)) < 0 THEN acc
    ELSE LeadingNumber(Tail(text), 10 * acc + DigitValue(Head(text)))

\* SqlQuery::int64Value of a column of table poll: a text that is no number
\* and NULL read as 0
pollInt64Value(v) == IF v.null THEN 0 ELSE LeadingNumber(v.text, 0)

\* SqlQuery::stringValue: NULL reads as an empty string
stringValue(v) == IF v.null THEN << >> ELSE v.text

\* the value of the k-th '?' of a statement (k from 1) after bindValue was
\* called with the positions 0 .. Len(values) - 1, positions counting from
\* first: a position outside the statement binds nothing, a parameter that
\* is not bound is NULL
Parameter(first, values, k) ==
    LET i == k - 1 + first
    IN  IF i + 1 \in DOMAIN values THEN TextValue(values[i + 1]) ELSE NullValue

\* INSERT OR REPLACE INTO poll (path, modtime, pollpath): the table has no
\* PRIMARY KEY and no UNIQUE column, so there is no row to replace
InsertPoll(rows, row) == rows \o <<row>>

\* DELETE FROM poll WHERE path=?: a comparison with NULL selects no row
DeletePoll(rows, param) ==
    IF param.null THEN rows ELSE SelectSeq(rows, LAMBDA x : x.path # param)

\* SyncJournalDb::getPollInfos on an open connection
getPollInfos(rows) ==
    [i \in 1..Len(rows) |->
        [file |-> stringValue(rows[i].path), modtime |-> pollInt64Value(rows[i].modtime),
         url |-> stringValue(rows[i].pollpath)]]

\* SyncJournalDb::setPollInfo; first is where SqlQuery::bindValue starts to
\* count, the same in every call
setPollInfo(info, openOk, first) ==
    /\ pollinfo.first \in {-1, first}
    /\ info.url = << >> \/ Len(pollinfo.rows) < MaxPollRows
    /\ IF checkConnect(openOk)
       THEN /\ dbOpen' = TRUE
            /\ pollinfo' =
                 [rows |-> IF info.url = << >>
                           THEN DeletePoll(pollinfo.rows, Parameter(first, <<info.file>>, 1))
                           ELSE LET values == <<info.file, QString_number(info.modtime), info.url>>
                                IN  InsertPoll(pollinfo.rows,
                                               [path     |-> Parameter(first, values, 1),
                                                modtime  |-> Parameter(first, values, 2),
                                                pollpath |-> Parameter(first, values, 3)]),
                  first |-> first, called |-> TRUE, ok |-> TRUE, info |-> info]
       ELSE /\ pollinfo' = [pollinfo EXCEPT !.called = TRUE, !.ok = FALSE, !.info = info]
            /\ UNCHANGED dbOpen
    /\ UNCHANGED <<transaction, metadata, filter, downloadinfo, blacklist, last>>
    /\ UNCHANGED <<propVars, threadVars, netVars, diskSpace>>

NextPoll ==
    \/ \E info \in PollInfos, openOk \in BOOLEAN, first \in FirstPositions :
          setPollInfo(info, openOk, first)
    \/ \E commitOk \in BOOLEAN : close(commitOk)

SpecPoll == Init /\ [][NextPoll]_vars

---------------------------------------------------------------------------
(* Claims about the poll table *)

\* the entries getPollInfos returns for a path
EntriesFor(file) ==
    LET res == getPollInfos(pollinfo.rows)
    IN  {i \in 1..Len(res) : res[i].file = file}

\* C38: getPollInfos returns at most one entry per path; after a setPollInfo
\* that reached the database with a non-empty url the entry of the path is
\* the one given, and after one with an empty url the path has no entry
C38_OneEntryPerPath ==
    /\ \A i, j \in 1..Len(pollinfo.rows) :
          getPollInfos(pollinfo.rows)[i].file = getPollInfos(pollinfo.rows)[j].file => i = j
    /\ (pollinfo.called /\ pollinfo.ok) =>
          IF pollinfo.info.url = << >>
          THEN EntriesFor(pollinfo.info.file) = {}
          ELSE \E i \in 1..Len(pollinfo.rows) :
                  /\ EntriesFor(pollinfo.info.file) = {i}
                  /\ getPollInfos(pollinfo.rows)[i] = pollinfo.info

---------------------------------------------------------------------------
(* Claims about the lookup of a wiped blacklist entry *)

\* C39: after wipeBlacklistEntry(p) has run its statement for a non-empty p,
\* blacklistEntry(p) finds no row, be the file system case preserving (the
\* lookup folds case) or not
C39_WipedEntryIsNotFound ==
    (last.op = "wipeBlacklistEntry" /\ last.ok) =>
        \A fsCasePreserving \in BOOLEAN :
            ~blacklistEntryFound(blacklist, last.path, fsCasePreserving)

---------------------------------------------------------------------------
(* Claims about errors of aborted runs and the blacklist *)

\* the last completion is one of a leaf whose done was called with
\* NormalError or FatalError while abortRequested was set, the item's
\* errorMayBeBlacklisted being false
AbortedErrorCompleted ==
    /\ LeafCompleted
    /\ completed.abort
    /\ completed.called \in {"NormalError", "FatalError"}
    /\ ~CompletedItem.errorMayBeBlacklisted

\* C40: while abortRequested is set, the completion of a leaf with
\* NormalError or FatalError whose item has errorMayBeBlacklisted == false is
\* reported as SoftError and leaves the blacklist as it was
C40_AbortedErrorsLeaveTheBlacklist ==
    AbortedErrorCompleted =>
        /\ completed.status = "SoftError"
        /\ blacklist = completed.before

\* C40 witness: under abort a NormalError of an item that has a blacklist
\* entry, and whose entry would have been rewritten, has left the entry alone
C40_Witness ==
    /\ AbortedErrorCompleted
    /\ completed.called = "NormalError"
    /\ completed.outcome = "Suppressed"
    /\ CompletedItem.hasBlacklistEntry
    /\ RowsFor(blacklist, CompletedItem.file) # {}
    /\ blacklist = completed.before

====
